---- MODULE Spec2Model ----
(***************************************************************************)
(* Four-player partnership Canasta (canasta/canasta_game.py and its        *)
(* helpers cards.py, melds.py, scoring.py) as a state machine.             *)
(*                                                                         *)
(* The variables are the fields of CanastaState.  One action per branch of *)
(* CanastaState._apply_action, plus the hand finalization that             *)
(* CanastaState._legal_actions performs when it finds nothing to return.   *)
(***************************************************************************)
EXTENDS Integers, Sequences, FiniteSets, TLC

\* ------------------------------------------------------------ constants

NUM_CARDS == 108
NUM_PLAYERS == 4
HAND_SIZE == 11
TARGET_SCORE == 5000

ACTION_DRAW_STOCK == 0
ACTION_TAKE_PILE == 1
ACTION_CREATE_MELD_START == 2
ACTION_CREATE_MELD_END == 1000
ACTION_ADD_TO_MELD_START == 1001
ACTION_ADD_TO_MELD_END == 2000
ACTION_SKIP_MELD == 2001
ACTION_DISCARD_START == 2002
ACTION_DISCARD_END == 2109
ACTION_ASK_PARTNER_GO_OUT == 2110
ACTION_ANSWER_GO_OUT_YES == 2111
ACTION_ANSWER_GO_OUT_NO == 2112
ACTION_GO_OUT == 2113

\* pyspiel.PlayerId.CHANCE and pyspiel.PlayerId.TERMINAL
CHANCE == -1
TERMINAL == -4

\* ------------------------------------------------------------ bounds

\* Turns (draw .. discard) a hand is followed for.
MaxTurns == 3
\* The driver discards one of the first MaxDiscardChoices cards of the hand.
MaxDiscardChoices == 2

Players == 0 .. (NUM_PLAYERS - 1)
Teams == {0, 1}
Cards == 0 .. (NUM_CARDS - 1)

\* ------------------------------------------------------------ cards.py

rank_of(c) == IF c >= 104 THEN -1 ELSE (c % 52) % 13

suit_of(c) == (c % 52) \div 13

is_wild(c) == IF c >= 104 THEN TRUE ELSE rank_of(c) = 1

is_red_three(c) == IF c >= 104 THEN FALSE ELSE rank_of(c) = 2 /\ suit_of(c) \in {1, 2}

is_black_three(c) == IF c >= 104 THEN FALSE ELSE rank_of(c) = 2 /\ suit_of(c) \in {0, 3}

card_point_value(c) ==
  IF c >= 104 THEN 50
  ELSE IF rank_of(c) = 1 THEN 20
  ELSE IF rank_of(c) = 0 THEN 20
  ELSE IF rank_of(c) >= 7 THEN 10
  ELSE 5

\* ------------------------------------------------------------ list helpers

Range(s) == {s[i] : i \in 1 .. Len(s)}

\* list.remove(c): the first occurrence goes, nothing happens to the rest.
RECURSIVE Remove(_, _)
Remove(s, c) ==
  IF s = <<>> THEN <<>>
  ELSE IF Head(s) = c THEN Tail(s)
  ELSE <<Head(s)>> \o Remove(Tail(s), c)

\* s[:n]
Prefix(s, n) == SubSeq(s, 1, IF n < Len(s) THEN n ELSE Len(s))

\* list.pop(i), 0-based: the list without that element
PopAt(s, i) == SubSeq(s, 1, i) \o SubSeq(s, i + 2, Len(s))

IsNaturalOfRank(c, r) == ~is_wild(c) /\ rank_of(c) = r

\* [c for c in hand if not is_wild(c) and rank_of(c) == r]
NaturalsOfRank(hand, r) ==
  LET T(c) == IsNaturalOfRank(c, r) IN SelectSeq(hand, T)

\* [c for c in hand if is_wild(c)]
WildsOf(hand) == SelectSeq(hand, is_wild)

RECURSIVE calculate_card_points(_)
calculate_card_points(s) ==
  IF s = <<>> THEN 0 ELSE card_point_value(Head(s)) + calculate_card_points(Tail(s))

\* ------------------------------------------------------------ deck.py

create_deck == [i \in 1 .. NUM_CARDS |-> i - 1]

\* ------------------------------------------------------------ state

VARIABLES
  deck, hands, stock, discard_pile, melds, canastas, red_threes,
  cards_dealt, red_three_replacements_needed,
  current_player, is_terminal, team_scores, hand_scores, hand_number,
  dealing_phase, game_phase, turn_phase,
  pile_frozen, initial_meld_made, black_three_blocks_next,
  go_out_query_pending, go_out_query_asker, go_out_approved,
  partner_asked_this_turn, winning_team,
  turns, last, fin, probe

\* The fields of CanastaState.
stateVars ==
  <<deck, hands, stock, discard_pile, melds, canastas, red_threes,
    cards_dealt, red_three_replacements_needed,
    current_player, is_terminal, team_scores, hand_scores, hand_number,
    dealing_phase, game_phase, turn_phase,
    pile_frozen, initial_meld_made, black_three_blocks_next,
    go_out_query_pending, go_out_query_asker, go_out_approved,
    partner_asked_this_turn, winning_team>>

\* History: turns counts the discards of the hand, last is the call that made
\* the step, fin is what the latest hand finalization was handed and found;
\* probe holds what a caller keeps beside the state: the inputs and the result
\* of a function it called, or the state it took a copy of.
vars == <<stateVars, turns, last, fin, probe>>

\* ------------------------------------------------------------ the driver

\* Hand boundaries the model starts from: a new game, and the boundaries
\* that repeating the hand "player 0 draws, melds six aces and a two, asks,
\* is allowed, and goes out" (445 to team 0, -280 to team 1) leads to.
StartStates ==
  { [scores |-> <<0, 0>>, hand |-> 0],
    [scores |-> <<4895, -3080>>, hand |-> 11] }

\* The deal the chance player is followed through: the cards handed out, in
\* order (eleven to player 0, then eleven to player 1, ...).
DealPlan ==
  <<1, 25, 0, 26, 39, 52, 65, 38, 51, 64, 77>> \o
  <<2, 78, 90, 103, 3, 4, 5, 6, 7, 8, 9>> \o
  <<91, 11, 55, 56, 57, 58, 59, 60, 61, 62, 41>> \o
  <<28, 68, 69, 70, 71, 72, 73, 74, 75, 76, 54>>

\* A second card the chance player may hand out at some positions (0-based).
DealAlternative(k) == IF k = 33 THEN {81} ELSE {}

\* The chance outcomes the model follows: indices into the undealt deck.
PlannedOutcomes ==
  {i \in 0 .. (Len(deck) - 1) :
     /\ cards_dealt < Len(DealPlan)
     /\ deck[i + 1] \in {DealPlan[cards_dealt + 1]} \cup DealAlternative(cards_dealt)}

\* ------------------------------------------------------------ construction

NoCall == [call |-> "none", action |-> -1, actor |-> CHANCE, legal |-> TRUE]
NoFinalize == [count |-> 0, winning_team |-> -1, concealed |-> FALSE,
               canastas |-> <<0, 0>>, cards |-> 0]
NoProbe == [kind |-> "none"]

\* CanastaState.__init__, with the cumulative scores and hand number of the
\* hand boundary the run starts at.
InitState ==
  /\ \E s \in StartStates :
       /\ team_scores = [t \in Teams |-> s.scores[t + 1]]
       /\ hand_number = s.hand
  /\ deck = create_deck
  /\ hands = [p \in Players |-> <<>>]
  /\ stock = <<>>
  /\ discard_pile = <<>>
  /\ melds = [t \in Teams |-> <<>>]
  /\ canastas = [t \in Teams |-> 0]
  /\ red_threes = [t \in Teams |-> <<>>]
  /\ cards_dealt = 0
  /\ red_three_replacements_needed = <<>>
  /\ current_player = 0
  /\ is_terminal = FALSE
  /\ hand_scores = [t \in Teams |-> 0]
  /\ dealing_phase = TRUE
  /\ game_phase = "dealing"
  /\ turn_phase = "draw"
  /\ pile_frozen = FALSE
  /\ initial_meld_made = [t \in Teams |-> FALSE]
  /\ black_three_blocks_next = FALSE
  /\ go_out_query_pending = FALSE
  /\ go_out_query_asker = -1
  /\ go_out_approved = FALSE
  /\ partner_asked_this_turn = FALSE
  /\ winning_team = -1
  /\ turns = 0
  /\ last = NoCall
  /\ fin = NoFinalize

Init == InitState /\ probe = NoProbe

\* CanastaState.current_player()
CurrentActor ==
  IF is_terminal THEN TERMINAL
  ELSE IF dealing_phase THEN CHANCE
  ELSE current_player

is_chance_node == CurrentActor = CHANCE

\* ------------------------------------------------------------ dealing

\* ReplaceRedThrees taking the replacements from the end of the deck
RECURSIVE ReplaceRedThrees_from_end(_)
ReplaceRedThrees_from_end(st) ==
  IF st.need = <<>> \/ st.deck = <<>> THEN st
  ELSE
    LET player_idx == Head(st.need)[1]
        replacement == st.deck[Len(st.deck)]
        rest == SubSeq(st.deck, 1, Len(st.deck) - 1)
        team_idx == player_idx % 2
    IN IF is_red_three(replacement)
       THEN ReplaceRedThrees_from_end(
              [deck |-> rest,
               hands |-> st.hands,
               red_threes |-> [st.red_threes EXCEPT ![team_idx] = Append(@, replacement)],
               need |-> Append(Tail(st.need), <<player_idx, replacement>>)])
       ELSE ReplaceRedThrees_from_end(
              [deck |-> rest,
               hands |-> [st.hands EXCEPT ![player_idx] = Append(@, replacement)],
               red_threes |-> st.red_threes,
               need |-> Tail(st.need)])

\* The red-three replacement loop that ends the deal: st is
\* [deck, hands, red_threes, need].
RECURSIVE ReplaceRedThrees(_)
ReplaceRedThrees(st) ==
  IF st.need = <<>> \/ st.deck = <<>> THEN st
  ELSE
    LET player_idx == Head(st.need)[1]
        replacement == Head(st.deck)
        team_idx == player_idx % 2
    IN IF is_red_three(replacement)
       THEN ReplaceRedThrees(
              [deck |-> Tail(st.deck),
               hands |-> st.hands,
               red_threes |-> [st.red_threes EXCEPT ![team_idx] = Append(@, replacement)],
               need |-> Append(Tail(st.need), <<player_idx, replacement>>)])
       ELSE ReplaceRedThrees(
              [deck |-> Tail(st.deck),
               hands |-> [st.hands EXCEPT ![player_idx] = Append(@, replacement)],
               red_threes |-> st.red_threes,
               need |-> Tail(st.need)])

\* The chance branch of _apply_action without the initial discard
ApplyChance_no_initial_discard(action) ==
  LET card == deck[action + 1]
      deck1 == PopAt(deck, action)
      player_idx == cards_dealt \div HAND_SIZE
      gets == player_idx < NUM_PLAYERS
      red == gets /\ is_red_three(card)
      team_idx == player_idx % 2
      hands1 == IF gets /\ ~red THEN [hands EXCEPT ![player_idx] = Append(@, card)] ELSE hands
      red1 == IF red THEN [red_threes EXCEPT ![team_idx] = Append(@, card)] ELSE red_threes
      need1 == IF red THEN Append(red_three_replacements_needed, <<player_idx, card>>)
               ELSE red_three_replacements_needed
      dealt1 == cards_dealt + 1
      complete == dealt1 >= NUM_PLAYERS * HAND_SIZE
      st == IF complete
            THEN ReplaceRedThrees([deck |-> deck1, hands |-> hands1,
                                   red_threes |-> red1, need |-> need1])
            ELSE [deck |-> deck1, hands |-> hands1, red_threes |-> red1, need |-> need1]
      play == complete /\ st.need = <<>>
  IN /\ cards_dealt' = dealt1
     /\ hands' = st.hands
     /\ red_threes' = st.red_threes
     /\ red_three_replacements_needed' = st.need
     /\ dealing_phase' = IF play THEN FALSE ELSE dealing_phase
     /\ game_phase' = IF play THEN "playing" ELSE game_phase
     /\ discard_pile' = discard_pile
     /\ stock' = IF play THEN st.deck ELSE stock
     /\ deck' = IF play THEN <<>> ELSE st.deck
     /\ current_player' = IF play THEN 0 ELSE current_player
     /\ UNCHANGED <<melds, canastas, is_terminal, team_scores, hand_scores, hand_number,
                    turn_phase, pile_frozen, initial_meld_made, black_three_blocks_next,
                    go_out_query_pending, go_out_query_asker, go_out_approved,
                    partner_asked_this_turn, winning_team>>

\* ApplyChance dealing the top card of the deck whatever the outcome
ApplyChance_top_card(action) ==
  LET card == deck[1]
      deck1 == Tail(deck)
      player_idx == cards_dealt \div HAND_SIZE
      gets == player_idx < NUM_PLAYERS
      red == gets /\ is_red_three(card)
      team_idx == player_idx % 2
      hands1 == IF gets /\ ~red THEN [hands EXCEPT ![player_idx] = Append(@, card)] ELSE hands
      red1 == IF red THEN [red_threes EXCEPT ![team_idx] = Append(@, card)] ELSE red_threes
      need1 == IF red THEN Append(red_three_replacements_needed, <<player_idx, card>>)
               ELSE red_three_replacements_needed
      dealt1 == cards_dealt + 1
      complete == dealt1 >= NUM_PLAYERS * HAND_SIZE
      st == IF complete
            THEN ReplaceRedThrees([deck |-> deck1, hands |-> hands1,
                                   red_threes |-> red1, need |-> need1])
            ELSE [deck |-> deck1, hands |-> hands1, red_threes |-> red1, need |-> need1]
      play == complete /\ st.need = <<>>
  IN /\ cards_dealt' = dealt1
     /\ hands' = st.hands
     /\ red_threes' = st.red_threes
     /\ red_three_replacements_needed' = st.need
     /\ dealing_phase' = IF play THEN FALSE ELSE dealing_phase
     /\ game_phase' = IF play THEN "playing" ELSE game_phase
     /\ discard_pile' = IF play /\ st.deck # <<>> THEN Append(discard_pile, Head(st.deck))
                        ELSE discard_pile
     /\ stock' = IF play THEN (IF st.deck # <<>> THEN Tail(st.deck) ELSE st.deck) ELSE stock
     /\ deck' = IF play THEN <<>> ELSE st.deck
     /\ current_player' = IF play THEN 0 ELSE current_player
     /\ UNCHANGED <<melds, canastas, is_terminal, team_scores, hand_scores, hand_number,
                    turn_phase, pile_frozen, initial_meld_made, black_three_blocks_next,
                    go_out_query_pending, go_out_query_asker, go_out_approved,
                    partner_asked_this_turn, winning_team>>

\* _apply_action at a chance node: action is an index into the undealt deck.
ApplyChance(action) ==
  LET card == deck[action + 1]
      deck1 == PopAt(deck, action)
      player_idx == cards_dealt \div HAND_SIZE
      gets == player_idx < NUM_PLAYERS
      red == gets /\ is_red_three(card)
      team_idx == player_idx % 2
      hands1 == IF gets /\ ~red THEN [hands EXCEPT ![player_idx] = Append(@, card)] ELSE hands
      red1 == IF red THEN [red_threes EXCEPT ![team_idx] = Append(@, card)] ELSE red_threes
      need1 == IF red THEN Append(red_three_replacements_needed, <<player_idx, card>>)
               ELSE red_three_replacements_needed
      dealt1 == cards_dealt + 1
      complete == dealt1 >= NUM_PLAYERS * HAND_SIZE
      st == IF complete
            THEN ReplaceRedThrees([deck |-> deck1, hands |-> hands1,
                                   red_threes |-> red1, need |-> need1])
            ELSE [deck |-> deck1, hands |-> hands1, red_threes |-> red1, need |-> need1]
      play == complete /\ st.need = <<>>
  IN /\ cards_dealt' = dealt1
     /\ hands' = st.hands
     /\ red_threes' = st.red_threes
     /\ red_three_replacements_needed' = st.need
     /\ dealing_phase' = IF play THEN FALSE ELSE dealing_phase
     /\ game_phase' = IF play THEN "playing" ELSE game_phase
     /\ discard_pile' = IF play /\ st.deck # <<>> THEN Append(discard_pile, Head(st.deck))
                        ELSE discard_pile
     /\ stock' = IF play THEN (IF st.deck # <<>> THEN Tail(st.deck) ELSE st.deck) ELSE stock
     /\ deck' = IF play THEN <<>> ELSE st.deck
     /\ current_player' = IF play THEN 0 ELSE current_player
     /\ UNCHANGED <<melds, canastas, is_terminal, team_scores, hand_scores, hand_number,
                    turn_phase, pile_frozen, initial_meld_made, black_three_blocks_next,
                    go_out_query_pending, go_out_query_asker, go_out_approved,
                    partner_asked_this_turn, winning_team>>

\* The chance player deals one card of the followed deal.
Deal ==
  /\ is_chance_node
  /\ [scores |-> <<team_scores[0], team_scores[1]>>, hand |-> hand_number] \in StartStates
  /\ \E action \in PlannedOutcomes :
       /\ ApplyChance(action)
       /\ last' = [call |-> "apply", action |-> action, actor |-> CHANCE, legal |-> TRUE]
       /\ UNCHANGED probe
  /\ UNCHANGED <<turns, fin>>


\* ------------------------------------------------------------ melds.py

Meld(rank, natural_cards, wild_cards) ==
  [rank |-> rank, natural_cards |-> natural_cards, wild_cards |-> wild_cards]

MeldSize(meld) == Len(meld.natural_cards) + Len(meld.wild_cards)

is_valid_meld(meld, allow_black_threes) ==
  IF MeldSize(meld) < 3 THEN FALSE
  ELSE IF Len(meld.natural_cards) < 2 THEN FALSE
  ELSE IF Len(meld.wild_cards) > 3 THEN FALSE
  ELSE IF meld.rank = 1 THEN FALSE
  ELSE IF meld.rank = 2 /\ ~allow_black_threes THEN FALSE
  ELSE TRUE

meld_point_value(meld) ==
  calculate_card_points(meld.natural_cards) + calculate_card_points(meld.wild_cards)

\* is_canasta counting a meld of six cards
is_canasta_of_six(meld) == MeldSize(meld) >= 6

is_canasta(meld) == MeldSize(meld) >= 7

is_natural_canasta(meld) == is_canasta(meld) /\ Len(meld.wild_cards) = 0

is_mixed_canasta(meld) == is_canasta(meld) /\ Len(meld.wild_cards) > 0

canasta_bonus(meld) ==
  IF is_natural_canasta(meld) THEN 500
  ELSE IF is_mixed_canasta(meld) THEN 300
  ELSE 0

\* initial_meld_minimum asking 50 points up to a score of 3000
initial_meld_minimum_without_90(team_score) ==
  IF team_score < 0 THEN 15
  ELSE IF team_score < 3000 THEN 50
  ELSE IF team_score < 3000 THEN 90
  ELSE 120

initial_meld_minimum(team_score) ==
  IF team_score < 0 THEN 15
  ELSE IF team_score < 1500 THEN 50
  ELSE IF team_score < 3000 THEN 90
  ELSE 120

\* can_form_initial_meld([meld], team_score): the engine only ever passes one meld
can_form_initial_meld(meld, team_score) ==
  meld_point_value(meld) >= initial_meld_minimum(team_score)

\* ------------------------------------------------------------ scoring.py

RECURSIVE calculate_meld_bonuses(_)
calculate_meld_bonuses(ms) ==
  IF ms = <<>> THEN 0 ELSE canasta_bonus(Head(ms)) + calculate_meld_bonuses(Tail(ms))

\* calculate_red_three_bonus with -800 for four red threes without a meld
calculate_red_three_bonus_symmetric(red_three_count, has_melds) ==
  IF red_three_count = 0 THEN 0
  ELSE IF has_melds
       THEN (IF red_three_count = 4 THEN 800 ELSE red_three_count * 100)
       ELSE (IF red_three_count = 4 THEN -800 ELSE red_three_count * (-100))

calculate_red_three_bonus(red_three_count, has_melds) ==
  IF red_three_count = 0 THEN 0
  ELSE IF has_melds
       THEN (IF red_three_count = 4 THEN 800 ELSE red_three_count * 100)
       ELSE red_three_count * (-100)

calculate_going_out_bonus(went_out, concealed) ==
  IF ~went_out THEN 0 ELSE IF concealed THEN 200 ELSE 100

calculate_hand_score(melded_cards, ms, red_three_count, hand_cards, went_out, concealed) ==
  calculate_card_points(melded_cards)
  + calculate_meld_bonuses(ms)
  + calculate_red_three_bonus(red_three_count, Len(ms) > 0)
  + calculate_going_out_bonus(went_out, concealed)
  - calculate_card_points(hand_cards)

\* ------------------------------------------------------------ legality

\* The rank of the team's melds, and the first meld of a rank.
HasMeldOfRank(ms, r) == \E i \in 1 .. Len(ms) : ms[i].rank = r

_can_draw_stock == Len(stock) > 0

_is_pile_frozen ==
  LET team == current_player % 2
  IN IF ~initial_meld_made[team] THEN TRUE
     ELSE IF pile_frozen THEN TRUE
     ELSE \E i \in 1 .. Len(discard_pile) : is_wild(discard_pile[i])

\* _can_take_pile that accepts one matching natural card for a frozen pile
_can_take_pile_one_natural ==
  IF discard_pile = <<>> THEN FALSE
  ELSE IF black_three_blocks_next THEN FALSE
  ELSE
    LET player == current_player
        team == player % 2
        top_card == discard_pile[Len(discard_pile)]
        top_rank == rank_of(top_card)
        matching_naturals == NaturalsOfRank(hands[player], top_rank)
    IN IF is_black_three(top_card) THEN FALSE
       ELSE IF _is_pile_frozen THEN Len(matching_naturals) >= 1
       ELSE IF Len(matching_naturals) >= 2 THEN TRUE
       ELSE Len(matching_naturals) >= 1 /\ HasMeldOfRank(melds[team], top_rank)

_can_take_pile ==
  IF discard_pile = <<>> THEN FALSE
  ELSE IF black_three_blocks_next THEN FALSE
  ELSE
    LET player == current_player
        team == player % 2
        top_card == discard_pile[Len(discard_pile)]
        top_rank == rank_of(top_card)
        matching_naturals == NaturalsOfRank(hands[player], top_rank)
    IN IF is_black_three(top_card) THEN FALSE
       ELSE IF _is_pile_frozen THEN Len(matching_naturals) >= 2
       ELSE IF Len(matching_naturals) >= 2 THEN TRUE
       ELSE Len(matching_naturals) >= 1 /\ HasMeldOfRank(melds[team], top_rank)

\* Every card is wild or a natural of the rank (the loop's early return).
CardsFitRank(card_ids, rank) ==
  \A i \in 1 .. Len(card_ids) : is_wild(card_ids[i]) \/ rank_of(card_ids[i]) = rank

NaturalsIn(card_ids) == LET T(c) == ~is_wild(c) IN SelectSeq(card_ids, T)

\* _can_create_meld without the check for an existing meld of the rank
_can_create_meld_any_rank(rank, card_ids) ==
  LET team == current_player % 2
      meld == Meld(rank, NaturalsIn(card_ids), WildsOf(card_ids))
  IN IF ~CardsFitRank(card_ids, rank) THEN FALSE
     ELSE IF ~is_valid_meld(meld, FALSE) THEN FALSE
     ELSE IF ~initial_meld_made[team] THEN can_form_initial_meld(meld, team_scores[team])
     ELSE TRUE

_can_create_meld(rank, card_ids) ==
  LET team == current_player % 2
      meld == Meld(rank, NaturalsIn(card_ids), WildsOf(card_ids))
  IN IF ~CardsFitRank(card_ids, rank) THEN FALSE
     ELSE IF ~is_valid_meld(meld, FALSE) THEN FALSE
     ELSE IF HasMeldOfRank(melds[team], rank) THEN FALSE
     ELSE IF ~initial_meld_made[team] THEN can_form_initial_meld(meld, team_scores[team])
     ELSE TRUE

_can_add_to_meld(meld_idx, card_ids) ==
  LET team == current_player % 2
  IN IF meld_idx < 0 \/ meld_idx >= Len(melds[team]) THEN FALSE
     ELSE
       LET existing_meld == melds[team][meld_idx + 1]
           updated_meld == Meld(existing_meld.rank,
                                existing_meld.natural_cards \o NaturalsIn(card_ids),
                                existing_meld.wild_cards \o WildsOf(card_ids))
       IN IF ~CardsFitRank(card_ids, existing_meld.rank) THEN FALSE
          ELSE is_valid_meld(updated_meld, FALSE)

Min(a, b) == IF a < b THEN a ELSE b

\* The CREATE_MELD loop of _generate_meld_actions
CreateMeldActions ==
  LET hand == hands[current_player]
      wild_cards == WildsOf(hand)
      ForRank(rank_idx) ==
        LET natural_cards == NaturalsOfRank(hand, rank_idx)
        IN { ACTION_CREATE_MELD_START + rank_idx * 50 + c[1] * 4 + c[2] :
               c \in { x \in (2 .. Len(natural_cards)) \X (0 .. Min(Len(wild_cards), 3)) :
                         /\ x[1] + x[2] >= 3
                         /\ _can_create_meld(rank_idx, Prefix(natural_cards, x[1])
                                                         \o Prefix(wild_cards, x[2]))
                         /\ ACTION_CREATE_MELD_START + rank_idx * 50 + x[1] * 4 + x[2]
                              <= ACTION_CREATE_MELD_END } }
  IN UNION { ForRank(rank_idx) : rank_idx \in (0 .. 12) \ {1, 2} }

\* The ADD_TO_MELD loops of _generate_meld_actions
AddToMeldActions ==
  LET hand == hands[current_player]
      team == current_player % 2
      wild_cards == WildsOf(hand)
      ForMeld(meld_idx) ==
        LET meld == melds[team][meld_idx + 1]
            natural_cards == NaturalsOfRank(hand, meld.rank)
            max_wilds == Min(Len(wild_cards), 3 - Len(meld.wild_cards))
            base == ACTION_ADD_TO_MELD_START + meld_idx * 50
        IN { base + n : n \in { x \in 1 .. Len(natural_cards) :
                 /\ _can_add_to_meld(meld_idx, Prefix(natural_cards, x))
                 /\ base + x <= ACTION_ADD_TO_MELD_END } }
           \cup
           { base + 10 + w : w \in { x \in 1 .. max_wilds :
                 /\ _can_add_to_meld(meld_idx, Prefix(wild_cards, x))
                 /\ base + 10 + x <= ACTION_ADD_TO_MELD_END } }
           \cup
           { base + 20 + c[1] * 4 + c[2] :
               c \in { x \in (1 .. Len(natural_cards)) \X (1 .. max_wilds) :
                 /\ _can_add_to_meld(meld_idx, Prefix(natural_cards, x[1])
                                                 \o Prefix(wild_cards, x[2]))
                 /\ base + 20 + x[1] * 4 + x[2] <= ACTION_ADD_TO_MELD_END } }
  IN UNION { ForMeld(meld_idx) : meld_idx \in 0 .. (Len(melds[team]) - 1) }

_generate_meld_actions == {ACTION_SKIP_MELD} \cup CreateMeldActions \cup AddToMeldActions

\* [c for c in hand if c != discard_candidate]
Without(hand, c) == LET T(x) == x # c IN SelectSeq(hand, T)

\* _can_meld_all_cards: only the natural cards are looked at; a rank passes when
\* the team has a meld of it or at least two cards of it are given.
_can_meld_all_cards(cards, team) ==
  \A i \in 1 .. Len(cards) :
     is_wild(cards[i])
     \/ HasMeldOfRank(melds[team], rank_of(cards[i]))
     \/ Len(NaturalsOfRank(cards, rank_of(cards[i]))) >= 2

_can_meld_all_but_one ==
  LET player == current_player
      team == player % 2
      hand == hands[player]
  IN \E i \in 1 .. Len(hand) : _can_meld_all_cards(Without(hand, hand[i]), team)

_is_concealed_go_out == Len(melds[current_player % 2]) = 0

\* _can_ask_partner_go_out without the check that the partner was asked in this turn
_can_ask_partner_go_out_again ==
  IF turn_phase # "meld" THEN FALSE
  ELSE IF go_out_query_pending THEN FALSE
  ELSE IF canastas[current_player % 2] < 1 THEN FALSE
  ELSE _can_meld_all_but_one

_can_ask_partner_go_out ==
  IF turn_phase # "meld" THEN FALSE
  ELSE IF partner_asked_this_turn THEN FALSE
  ELSE IF go_out_query_pending THEN FALSE
  ELSE IF canastas[current_player % 2] < 1 THEN FALSE
  ELSE _can_meld_all_but_one

_can_go_out ==
  IF canastas[current_player % 2] < 1 THEN FALSE
  ELSE IF ~_can_meld_all_but_one THEN FALSE
  ELSE IF _is_concealed_go_out THEN TRUE
  ELSE go_out_approved

\* _is_valid_discard / _can_discard
_can_discard(card_id) == card_id \in Range(hands[current_player])

\* _generate_discard_actions that offers no wild card
_generate_discard_actions_no_wild ==
  {ACTION_DISCARD_START + c : c \in {d \in Range(hands[current_player]) : ~is_wild(d)}}

_generate_discard_actions ==
  {ACTION_DISCARD_START + c : c \in Range(hands[current_player])}

\* QueryFinalizes without the end of the hand on an empty hand in phase discard
QueryFinalizes_not_on_empty_hand ==
  IF turn_phase = "draw" THEN ~_can_draw_stock /\ ~_can_take_pile
  ELSE IF go_out_query_pending THEN FALSE
  ELSE IF turn_phase = "meld" THEN FALSE
  ELSE IF turn_phase = "discard" THEN FALSE
  ELSE FALSE

\* _legal_actions(player) finds no legal draw, or an empty hand to discard from:
\* it finalizes the hand and returns [].
QueryFinalizes ==
  IF turn_phase = "draw" THEN ~_can_draw_stock /\ ~_can_take_pile
  ELSE IF go_out_query_pending THEN FALSE
  ELSE IF turn_phase = "meld" THEN FALSE
  ELSE IF turn_phase = "discard" THEN hands[current_player] = <<>>
  ELSE FALSE

\* The list _legal_actions(current player) returns at a player node, as a set.
LegalActions ==
  IF turn_phase = "draw"
  THEN (IF _can_draw_stock THEN {ACTION_DRAW_STOCK} ELSE {})
       \cup (IF _can_take_pile THEN {ACTION_TAKE_PILE} ELSE {})
  ELSE IF go_out_query_pending
  THEN {ACTION_ANSWER_GO_OUT_YES, ACTION_ANSWER_GO_OUT_NO}
  ELSE IF turn_phase = "meld"
  THEN _generate_meld_actions
       \cup (IF _can_ask_partner_go_out THEN {ACTION_ASK_PARTNER_GO_OUT} ELSE {})
  ELSE IF turn_phase = "discard"
  THEN (IF hands[current_player] = <<>> THEN {}
        ELSE _generate_discard_actions
             \cup (IF _can_go_out THEN {ACTION_GO_OUT} ELSE {}))
  ELSE {0}

IsPlayerNode == ~is_terminal /\ ~dealing_phase

\* State.legal_actions() as the driver sees it: nothing when terminal, the
\* indices of the undealt deck at a chance node.
ChanceOutcomes == 0 .. (Len(deck) - 1)


\* ------------------------------------------------------------ effects

RECURSIVE MeldedCards(_)
MeldedCards(ms) ==
  IF ms = <<>> THEN <<>>
  ELSE Head(ms).natural_cards \o Head(ms).wild_cards \o MeldedCards(Tail(ms))

RECURSIVE CountCanastas(_)
CountCanastas(ms) ==
  IF ms = <<>> THEN 0
  ELSE (IF is_canasta(Head(ms)) THEN 1 ELSE 0) + CountCanastas(Tail(ms))

\* _update_canasta_count(team_idx) on the melds M
_update_canasta_count(CAN, M, team_idx) ==
  [CAN EXCEPT ![team_idx] = CountCanastas(M[team_idx])]

\* |hands| + |stock| + |discard| + |melds| + |red threes| of the given collections
CardCount(H, S, DP, M, RT) ==
  Len(H[0]) + Len(H[1]) + Len(H[2]) + Len(H[3]) + Len(S) + Len(DP)
  + Len(MeldedCards(M[0])) + Len(MeldedCards(M[1])) + Len(RT[0]) + Len(RT[1])

\* HandScore with both teams taken to have gone out
HandScore_bonus_to_both_teams(t, H, M, winning, went_out_concealed) ==
  LET went_out == winning >= 0
  IN calculate_hand_score(MeldedCards(M[t]), M[t], Len(red_threes[t]),
                          H[t] \o H[t + 2], went_out,
                          IF went_out THEN went_out_concealed ELSE FALSE)

\* The score _finalize_game gives team t
HandScore(t, H, M, winning, went_out_concealed) ==
  LET went_out == winning >= 0 /\ t = winning
  IN calculate_hand_score(MeldedCards(M[t]), M[t], Len(red_threes[t]),
                          H[t] \o H[t + 2], went_out,
                          IF went_out THEN went_out_concealed ELSE FALSE)

\* _start_new_hand without the reset of initial_meld_made
_start_new_hand_keeping_initial_meld(S) ==
  /\ hand_number' = hand_number + 1
  /\ deck' = create_deck
  /\ hands' = [p \in Players |-> <<>>]
  /\ stock' = <<>>
  /\ discard_pile' = <<>>
  /\ melds' = [t \in Teams |-> <<>>]
  /\ canastas' = [t \in Teams |-> 0]
  /\ red_threes' = [t \in Teams |-> <<>>]
  /\ cards_dealt' = 0
  /\ red_three_replacements_needed' = <<>>
  /\ dealing_phase' = TRUE
  /\ game_phase' = "dealing"
  /\ current_player' = 0
  /\ turn_phase' = "draw"
  /\ pile_frozen' = FALSE
  /\ UNCHANGED initial_meld_made
  /\ black_three_blocks_next' = FALSE
  /\ go_out_query_pending' = FALSE
  /\ go_out_query_asker' = -1
  /\ go_out_approved' = FALSE
  /\ partner_asked_this_turn' = FALSE
  /\ hand_scores' = [t \in Teams |-> 0]
  /\ team_scores' = S
  /\ is_terminal' = FALSE
  /\ winning_team' = -1

\* _start_new_hand, after the scores S have been added up
_start_new_hand(S) ==
  /\ hand_number' = hand_number + 1
  /\ deck' = create_deck
  /\ hands' = [p \in Players |-> <<>>]
  /\ stock' = <<>>
  /\ discard_pile' = <<>>
  /\ melds' = [t \in Teams |-> <<>>]
  /\ canastas' = [t \in Teams |-> 0]
  /\ red_threes' = [t \in Teams |-> <<>>]
  /\ cards_dealt' = 0
  /\ red_three_replacements_needed' = <<>>
  /\ dealing_phase' = TRUE
  /\ game_phase' = "dealing"
  /\ current_player' = 0
  /\ turn_phase' = "draw"
  /\ pile_frozen' = FALSE
  /\ initial_meld_made' = [t \in Teams |-> FALSE]
  /\ black_three_blocks_next' = FALSE
  /\ go_out_query_pending' = FALSE
  /\ go_out_query_asker' = -1
  /\ go_out_approved' = FALSE
  /\ partner_asked_this_turn' = FALSE
  /\ hand_scores' = [t \in Teams |-> 0]
  /\ team_scores' = S
  /\ is_terminal' = FALSE
  /\ winning_team' = -1

\* _finalize_game: has either cumulative score S reached the target score
ReachedTarget(S) == S[0] >= TARGET_SCORE \/ S[1] >= TARGET_SCORE

\* The winner decided without the team that went out
DetermineWinner_tie_to_team_0(S, winning) ==
  IF S[0] > S[1] THEN 0
  ELSE IF S[1] > S[0] THEN 1
  ELSE 0

\* _finalize_game: the winning team of a game that is over, winning being the
\* team that went out in the hand, -1 if none did
DetermineWinner(S, winning) ==
  IF S[0] > S[1] THEN 0
  ELSE IF S[1] > S[0] THEN 1
  ELSE IF winning >= 0 THEN winning
  ELSE 0

\* _finalize_game(winning, went_out_concealed), called with the hands H, melds M,
\* discard pile DP and canasta counts CAN its caller has just built.
_finalize_game(winning, went_out_concealed, H, M, DP, CAN) ==
  LET score == [t \in Teams |-> HandScore(t, H, M, winning, went_out_concealed)]
      S == [t \in Teams |-> team_scores[t] + score[t]]
      over == ReachedTarget(S)
  IN /\ fin' = [count |-> fin.count + 1, winning_team |-> winning,
                concealed |-> went_out_concealed,
                canastas |-> <<CAN[0], CAN[1]>>,
                cards |-> CardCount(H, stock, DP, M, red_threes)]
     /\ turns' = 0
     /\ IF over
        THEN /\ winning_team' = DetermineWinner(S, winning)
             /\ is_terminal' = TRUE
             /\ hand_scores' = score
             /\ team_scores' = S
             /\ hands' = H
             /\ melds' = M
             /\ discard_pile' = DP
             /\ canastas' = CAN
             /\ UNCHANGED <<deck, stock, red_threes, cards_dealt,
                            red_three_replacements_needed, current_player, hand_number,
                            dealing_phase, game_phase, turn_phase, pile_frozen,
                            initial_meld_made, black_three_blocks_next,
                            go_out_query_pending, go_out_query_asker, go_out_approved,
                            partner_asked_this_turn>>
        ELSE _start_new_hand(S)

\* DrawLoop that puts a drawn red three aside and draws no card in its place
DrawLoop_no_replacement(st) ==
  IF st.card \in Range(st.hand) /\ is_red_three(st.card)
  THEN [stock |-> st.stock, hand |-> Remove(st.hand, st.card),
        red |-> Append(st.red, st.card), card |-> st.card]
  ELSE st

\* The draw loop of _apply_draw_stock once a card has been drawn: st is
\* [stock, hand, red, card].
RECURSIVE DrawLoop(_)
DrawLoop(st) ==
  IF st.card \in Range(st.hand) /\ is_red_three(st.card)
  THEN LET hand1 == Remove(st.hand, st.card)
           red1 == Append(st.red, st.card)
       IN IF st.stock # <<>>
          THEN DrawLoop([stock |-> Tail(st.stock), hand |-> Append(hand1, Head(st.stock)),
                         red |-> red1, card |-> Head(st.stock)])
          ELSE [stock |-> st.stock, hand |-> hand1, red |-> red1, card |-> st.card]
  ELSE st

\* _apply_draw_stock without the clearing of the black-three block
_apply_draw_stock_keeping_block ==
  IF stock = <<>>
  THEN UNCHANGED stateVars
  ELSE
    LET player == current_player
        team == player % 2
        st == DrawLoop([stock |-> Tail(stock), hand |-> Append(hands[player], Head(stock)),
                        red |-> red_threes[team], card |-> Head(stock)])
    IN /\ stock' = st.stock
       /\ hands' = [hands EXCEPT ![player] = st.hand]
       /\ red_threes' = [red_threes EXCEPT ![team] = st.red]
       /\ turn_phase' = "meld"
       /\ UNCHANGED <<deck, discard_pile, melds, canastas, cards_dealt,
                      red_three_replacements_needed, current_player, is_terminal,
                      team_scores, hand_scores, hand_number, dealing_phase, game_phase,
                      pile_frozen, initial_meld_made, go_out_query_pending,
                      black_three_blocks_next,
                      go_out_query_asker, go_out_approved, partner_asked_this_turn,
                      winning_team>>

\* _apply_draw_stock that may move the next stock card to the end, by a choice of its own
_apply_draw_stock_shuffling ==
  IF stock = <<>>
  THEN UNCHANGED stateVars
  ELSE
    LET player == current_player
        team == player % 2
        st == DrawLoop([stock |-> Tail(stock), hand |-> Append(hands[player], Head(stock)),
                        red |-> red_threes[team], card |-> Head(stock)])
    IN /\ stock' \in {st.stock, Tail(st.stock) \o <<Head(st.stock)>>}
       /\ hands' = [hands EXCEPT ![player] = st.hand]
       /\ red_threes' = [red_threes EXCEPT ![team] = st.red]
       /\ black_three_blocks_next' = FALSE
       /\ turn_phase' = "meld"
       /\ UNCHANGED <<deck, discard_pile, melds, canastas, cards_dealt,
                      red_three_replacements_needed, current_player, is_terminal,
                      team_scores, hand_scores, hand_number, dealing_phase, game_phase,
                      pile_frozen, initial_meld_made, go_out_query_pending,
                      go_out_query_asker, go_out_approved, partner_asked_this_turn,
                      winning_team>>

_apply_draw_stock ==
  IF stock = <<>>
  THEN UNCHANGED stateVars
  ELSE
    LET player == current_player
        team == player % 2
        st == DrawLoop([stock |-> Tail(stock), hand |-> Append(hands[player], Head(stock)),
                        red |-> red_threes[team], card |-> Head(stock)])
    IN /\ stock' = st.stock
       /\ hands' = [hands EXCEPT ![player] = st.hand]
       /\ red_threes' = [red_threes EXCEPT ![team] = st.red]
       /\ black_three_blocks_next' = FALSE
       /\ turn_phase' = "meld"
       /\ UNCHANGED <<deck, discard_pile, melds, canastas, cards_dealt,
                      red_three_replacements_needed, current_player, is_terminal,
                      team_scores, hand_scores, hand_number, dealing_phase, game_phase,
                      pile_frozen, initial_meld_made, go_out_query_pending,
                      go_out_query_asker, go_out_approved, partner_asked_this_turn,
                      winning_team>>

\* hand.remove(c) for every c of cs, in order
RECURSIVE RemoveAll(_, _)
RemoveAll(hand, cs) ==
  IF cs = <<>> THEN hand ELSE RemoveAll(Remove(hand, Head(cs)), Tail(cs))

\* _apply_take_pile without the putting aside of red threes
_apply_take_pile_keeping_red_threes ==
  LET player == current_player
      team == player % 2
      hand1 == hands[player] \o discard_pile
      reds == <<>>
  IN /\ hands' = [hands EXCEPT ![player] = RemoveAll(hand1, reds)]
     /\ red_threes' = [red_threes EXCEPT ![team] = @ \o reds]
     /\ discard_pile' = <<>>
     /\ black_three_blocks_next' = FALSE
     /\ turn_phase' = "meld"
     /\ UNCHANGED <<deck, stock, melds, canastas, cards_dealt,
                    red_three_replacements_needed, current_player, is_terminal,
                    team_scores, hand_scores, hand_number, dealing_phase, game_phase,
                    pile_frozen, initial_meld_made, go_out_query_pending,
                    go_out_query_asker, go_out_approved, partner_asked_this_turn,
                    winning_team>>

\* _apply_take_pile that leaves the cards it took on the discard pile
_apply_take_pile_leaving_pile ==
  LET player == current_player
      team == player % 2
      hand1 == hands[player] \o discard_pile
      reds == SelectSeq(hand1, is_red_three)
  IN /\ hands' = [hands EXCEPT ![player] = RemoveAll(hand1, reds)]
     /\ red_threes' = [red_threes EXCEPT ![team] = @ \o reds]
     /\ discard_pile' = discard_pile
     /\ black_three_blocks_next' = FALSE
     /\ turn_phase' = "meld"
     /\ UNCHANGED <<deck, stock, melds, canastas, cards_dealt,
                    red_three_replacements_needed, current_player, is_terminal,
                    team_scores, hand_scores, hand_number, dealing_phase, game_phase,
                    pile_frozen, initial_meld_made, go_out_query_pending,
                    go_out_query_asker, go_out_approved, partner_asked_this_turn,
                    winning_team>>

\* _apply_take_pile that clears the freeze flag with the pile
_apply_take_pile_unfreezing ==
  LET player == current_player
      team == player % 2
      hand1 == hands[player] \o discard_pile
      reds == SelectSeq(hand1, is_red_three)
  IN /\ hands' = [hands EXCEPT ![player] = RemoveAll(hand1, reds)]
     /\ red_threes' = [red_threes EXCEPT ![team] = @ \o reds]
     /\ discard_pile' = <<>>
     /\ black_three_blocks_next' = FALSE
     /\ turn_phase' = "meld"
     /\ pile_frozen' = FALSE
     /\ UNCHANGED <<deck, stock, melds, canastas, cards_dealt,
                    red_three_replacements_needed, current_player, is_terminal,
                    team_scores, hand_scores, hand_number, dealing_phase, game_phase,
                    initial_meld_made, go_out_query_pending,
                    go_out_query_asker, go_out_approved, partner_asked_this_turn,
                    winning_team>>

\* _apply_take_pile that draws a card from the stock for every red three of the pile
_apply_take_pile_replacing_red_threes ==
  LET player == current_player
      team == player % 2
      hand1 == hands[player] \o discard_pile
      reds == SelectSeq(hand1, is_red_three)
  IN /\ hands' = [hands EXCEPT ![player] = RemoveAll(hand1, reds) \o SubSeq(stock, 1, Len(reds))]
     /\ stock' = SubSeq(stock, Len(reds) + 1, Len(stock))
     /\ red_threes' = [red_threes EXCEPT ![team] = @ \o reds]
     /\ discard_pile' = <<>>
     /\ black_three_blocks_next' = FALSE
     /\ turn_phase' = "meld"
     /\ UNCHANGED <<deck, melds, canastas, cards_dealt,
                    red_three_replacements_needed, current_player, is_terminal,
                    team_scores, hand_scores, hand_number, dealing_phase, game_phase,
                    pile_frozen, initial_meld_made, go_out_query_pending,
                    go_out_query_asker, go_out_approved, partner_asked_this_turn,
                    winning_team>>

_apply_take_pile ==
  LET player == current_player
      team == player % 2
      hand1 == hands[player] \o discard_pile
      reds == SelectSeq(hand1, is_red_three)
  IN /\ hands' = [hands EXCEPT ![player] = RemoveAll(hand1, reds)]
     /\ red_threes' = [red_threes EXCEPT ![team] = @ \o reds]
     /\ discard_pile' = <<>>
     /\ black_three_blocks_next' = FALSE
     /\ turn_phase' = "meld"
     /\ UNCHANGED <<deck, stock, melds, canastas, cards_dealt,
                    red_three_replacements_needed, current_player, is_terminal,
                    team_scores, hand_scores, hand_number, dealing_phase, game_phase,
                    pile_frozen, initial_meld_made, go_out_query_pending,
                    go_out_query_asker, go_out_approved, partner_asked_this_turn,
                    winning_team>>


\* _decode_create_meld_action: <<rank, card_ids>>
_decode_create_meld_action(action_id) ==
  LET hand == hands[current_player]
      offset == action_id - ACTION_CREATE_MELD_START
      rank == offset \div 50
      combo_idx == offset % 50
      num_naturals == combo_idx \div 4
      num_wilds == combo_idx % 4
  IN <<rank, Prefix(NaturalsOfRank(hand, rank), num_naturals)
               \o Prefix(WildsOf(hand), num_wilds)>>

\* _decode_add_to_meld_action taking every combo_idx below 30 for wild cards only
_decode_add_to_meld_action_wilds_below_30(action_id) ==
  LET team == current_player % 2
      hand == hands[current_player]
      offset == action_id - ACTION_ADD_TO_MELD_START
      meld_idx == offset \div 50
      combo_idx == offset % 50
  IN IF meld_idx >= Len(melds[team]) THEN <<meld_idx, <<>> >>
     ELSE
       LET meld == melds[team][meld_idx + 1]
           natural_cards == NaturalsOfRank(hand, meld.rank)
           wild_cards == WildsOf(hand)
           adjusted == combo_idx - 20
       IN IF combo_idx < 10 THEN <<meld_idx, Prefix(natural_cards, combo_idx)>>
          ELSE IF combo_idx < 30 THEN <<meld_idx, Prefix(wild_cards, combo_idx - 10)>>
          ELSE <<meld_idx, Prefix(natural_cards, adjusted \div 4)
                             \o Prefix(wild_cards, adjusted % 4)>>

\* _decode_add_to_meld_action: <<meld_idx, card_ids>>
_decode_add_to_meld_action(action_id) ==
  LET team == current_player % 2
      hand == hands[current_player]
      offset == action_id - ACTION_ADD_TO_MELD_START
      meld_idx == offset \div 50
      combo_idx == offset % 50
  IN IF meld_idx >= Len(melds[team]) THEN <<meld_idx, <<>> >>
     ELSE
       LET meld == melds[team][meld_idx + 1]
           natural_cards == NaturalsOfRank(hand, meld.rank)
           wild_cards == WildsOf(hand)
           adjusted == combo_idx - 20
       IN IF combo_idx < 10 THEN <<meld_idx, Prefix(natural_cards, combo_idx)>>
          ELSE IF combo_idx < 20 THEN <<meld_idx, Prefix(wild_cards, combo_idx - 10)>>
          ELSE <<meld_idx, Prefix(natural_cards, adjusted \div 4)
                             \o Prefix(wild_cards, adjusted % 4)>>

\* _apply_create_meld without the separation of natural and wild cards
_apply_create_meld_all_natural(rank, card_ids) ==
  LET player == current_player
      team == player % 2
      meld == Meld(rank, card_ids, <<>>)
      melds1 == [melds EXCEPT ![team] = Append(@, meld)]
  IN /\ melds' = melds1
     /\ hands' = [hands EXCEPT ![player] = RemoveAll(@, card_ids)]
     /\ initial_meld_made' = [initial_meld_made EXCEPT ![team] = TRUE]
     /\ canastas' = _update_canasta_count(canastas, melds1, team)
     /\ UNCHANGED <<deck, stock, discard_pile, red_threes, cards_dealt,
                    red_three_replacements_needed, current_player, is_terminal,
                    team_scores, hand_scores, hand_number, dealing_phase, game_phase,
                    turn_phase, pile_frozen, black_three_blocks_next,
                    go_out_query_pending, go_out_query_asker, go_out_approved,
                    partner_asked_this_turn, winning_team>>

\* _apply_create_meld that does not set the initial-meld flag
_apply_create_meld_without_flag(rank, card_ids) ==
  LET player == current_player
      team == player % 2
      meld == Meld(rank, NaturalsIn(card_ids), WildsOf(card_ids))
      melds1 == [melds EXCEPT ![team] = Append(@, meld)]
  IN /\ melds' = melds1
     /\ hands' = [hands EXCEPT ![player] = RemoveAll(@, card_ids)]
     /\ initial_meld_made' = initial_meld_made
     /\ canastas' = _update_canasta_count(canastas, melds1, team)
     /\ UNCHANGED <<deck, stock, discard_pile, red_threes, cards_dealt,
                    red_three_replacements_needed, current_player, is_terminal,
                    team_scores, hand_scores, hand_number, dealing_phase, game_phase,
                    turn_phase, pile_frozen, black_three_blocks_next,
                    go_out_query_pending, go_out_query_asker, go_out_approved,
                    partner_asked_this_turn, winning_team>>

_apply_create_meld(rank, card_ids) ==
  LET player == current_player
      team == player % 2
      meld == Meld(rank, NaturalsIn(card_ids), WildsOf(card_ids))
      melds1 == [melds EXCEPT ![team] = Append(@, meld)]
  IN /\ melds' = melds1
     /\ hands' = [hands EXCEPT ![player] = RemoveAll(@, card_ids)]
     /\ initial_meld_made' = [initial_meld_made EXCEPT ![team] = TRUE]
     /\ canastas' = _update_canasta_count(canastas, melds1, team)
     /\ UNCHANGED <<deck, stock, discard_pile, red_threes, cards_dealt,
                    red_three_replacements_needed, current_player, is_terminal,
                    team_scores, hand_scores, hand_number, dealing_phase, game_phase,
                    turn_phase, pile_frozen, black_three_blocks_next,
                    go_out_query_pending, go_out_query_asker, go_out_approved,
                    partner_asked_this_turn, winning_team>>

\* melds[team][meld_idx] of a meld that does not exist raises IndexError before
\* anything is changed.
_apply_add_to_meld(meld_idx, card_ids) ==
  LET player == current_player
      team == player % 2
  IN IF meld_idx >= Len(melds[team])
     THEN UNCHANGED stateVars
     ELSE
       LET melds1 == [melds EXCEPT ![team][meld_idx + 1] =
                        [@ EXCEPT !.natural_cards = @ \o NaturalsIn(card_ids),
                                  !.wild_cards = @ \o WildsOf(card_ids)]]
       IN /\ melds' = melds1
          /\ hands' = [hands EXCEPT ![player] = RemoveAll(@, card_ids)]
          /\ canastas' = _update_canasta_count(canastas, melds1, team)
          /\ UNCHANGED <<deck, stock, discard_pile, red_threes, cards_dealt,
                         red_three_replacements_needed, current_player, is_terminal,
                         team_scores, hand_scores, hand_number, dealing_phase, game_phase,
                         turn_phase, pile_frozen, initial_meld_made,
                         black_three_blocks_next, go_out_query_pending,
                         go_out_query_asker, go_out_approved, partner_asked_this_turn,
                         winning_team>>

_apply_skip_meld ==
  /\ turn_phase' = "discard"
  /\ UNCHANGED <<deck, hands, stock, discard_pile, melds, canastas, red_threes,
                 cards_dealt, red_three_replacements_needed, current_player,
                 is_terminal, team_scores, hand_scores, hand_number, dealing_phase,
                 game_phase, pile_frozen, initial_meld_made, black_three_blocks_next,
                 go_out_query_pending, go_out_query_asker, go_out_approved,
                 partner_asked_this_turn, winning_team>>

\* _apply_discard without the reset of go_out_approved
_apply_discard_keeping_approval(card_id) ==
  LET player == current_player
  IN /\ hands' = [hands EXCEPT ![player] = Remove(@, card_id)]
     /\ discard_pile' = Append(discard_pile, card_id)
     /\ pile_frozen' = IF is_wild(card_id) THEN TRUE ELSE pile_frozen
     /\ black_three_blocks_next' =
          IF is_black_three(card_id) THEN TRUE ELSE black_three_blocks_next
     /\ turn_phase' = "draw"
     /\ current_player' = (current_player + 1) % NUM_PLAYERS
     /\ partner_asked_this_turn' = FALSE
     /\ UNCHANGED <<deck, stock, melds, canastas, red_threes, cards_dealt,
                    red_three_replacements_needed, is_terminal, team_scores,
                    hand_scores, hand_number, dealing_phase, game_phase,
                    initial_meld_made, go_out_query_pending, go_out_query_asker,
                    go_out_approved, winning_team>>

\* _apply_discard that sets the block on a wild card as on a black three
_apply_discard_blocking_on_wild(card_id) ==
  LET player == current_player
  IN /\ hands' = [hands EXCEPT ![player] = Remove(@, card_id)]
     /\ discard_pile' = Append(discard_pile, card_id)
     /\ pile_frozen' = IF is_wild(card_id) THEN TRUE ELSE pile_frozen
     /\ black_three_blocks_next' =
          IF is_black_three(card_id) \/ is_wild(card_id) THEN TRUE ELSE black_three_blocks_next
     /\ turn_phase' = "draw"
     /\ current_player' = (current_player + 1) % NUM_PLAYERS
     /\ go_out_approved' = FALSE
     /\ partner_asked_this_turn' = FALSE
     /\ UNCHANGED <<deck, stock, melds, canastas, red_threes, cards_dealt,
                    red_three_replacements_needed, is_terminal, team_scores,
                    hand_scores, hand_number, dealing_phase, game_phase,
                    initial_meld_made, go_out_query_pending, go_out_query_asker,
                    winning_team>>

_apply_discard(card_id) ==
  LET player == current_player
  IN /\ hands' = [hands EXCEPT ![player] = Remove(@, card_id)]
     /\ discard_pile' = Append(discard_pile, card_id)
     /\ pile_frozen' = IF is_wild(card_id) THEN TRUE ELSE pile_frozen
     /\ black_three_blocks_next' =
          IF is_black_three(card_id) THEN TRUE ELSE black_three_blocks_next
     /\ turn_phase' = "draw"
     /\ current_player' = (current_player + 1) % NUM_PLAYERS
     /\ go_out_approved' = FALSE
     /\ partner_asked_this_turn' = FALSE
     /\ UNCHANGED <<deck, stock, melds, canastas, red_threes, cards_dealt,
                    red_three_replacements_needed, is_terminal, team_scores,
                    hand_scores, hand_number, dealing_phase, game_phase,
                    initial_meld_made, go_out_query_pending, go_out_query_asker,
                    winning_team>>

_apply_ask_partner ==
  /\ go_out_query_pending' = TRUE
  /\ go_out_query_asker' = current_player
  /\ partner_asked_this_turn' = TRUE
  /\ current_player' = (current_player + 2) % NUM_PLAYERS
  /\ UNCHANGED <<deck, hands, stock, discard_pile, melds, canastas, red_threes,
                 cards_dealt, red_three_replacements_needed, is_terminal, team_scores,
                 hand_scores, hand_number, dealing_phase, game_phase, turn_phase,
                 pile_frozen, initial_meld_made, black_three_blocks_next,
                 go_out_approved, winning_team>>

\* _apply_answer_yes/_apply_answer_no without the return of control to the asker
_apply_answer_keeping_player(answer) ==
  /\ go_out_approved' = answer
  /\ go_out_query_pending' = FALSE
  /\ UNCHANGED <<deck, hands, stock, discard_pile, melds, canastas, red_threes,
                 cards_dealt, red_three_replacements_needed, is_terminal, team_scores,
                 hand_scores, hand_number, dealing_phase, game_phase, turn_phase,
                 pile_frozen, initial_meld_made, black_three_blocks_next,
                 go_out_query_asker, partner_asked_this_turn, winning_team,
                 current_player>>

\* _apply_answer_yes/_apply_answer_no that forget that the partner was asked
_apply_answer_forgetting_ask(answer) ==
  /\ go_out_approved' = answer
  /\ go_out_query_pending' = FALSE
  /\ current_player' = go_out_query_asker
  /\ partner_asked_this_turn' = FALSE
  /\ UNCHANGED <<deck, hands, stock, discard_pile, melds, canastas, red_threes,
                 cards_dealt, red_three_replacements_needed, is_terminal, team_scores,
                 hand_scores, hand_number, dealing_phase, game_phase, turn_phase,
                 pile_frozen, initial_meld_made, black_three_blocks_next,
                 go_out_query_asker, winning_team>>

\* _apply_answer_yes (answer = TRUE) and _apply_answer_no (answer = FALSE)
_apply_answer(answer) ==
  /\ go_out_approved' = answer
  /\ go_out_query_pending' = FALSE
  /\ current_player' = go_out_query_asker
  /\ UNCHANGED <<deck, hands, stock, discard_pile, melds, canastas, red_threes,
                 cards_dealt, red_three_replacements_needed, is_terminal, team_scores,
                 hand_scores, hand_number, dealing_phase, game_phase, turn_phase,
                 pile_frozen, initial_meld_made, black_three_blocks_next,
                 go_out_query_asker, partner_asked_this_turn, winning_team>>

\* A meld takes a wild card while it has fewer than three, a natural card of its rank.
MeldTakes(m, card) ==
  IF is_wild(card) THEN Len(m.wild_cards) < 3 ELSE m.rank = rank_of(card)

\* The index of the first meld of ms that takes the card, 0 if there is none
FirstMeld(ms, card) ==
  IF \E i \in 1 .. Len(ms) : MeldTakes(ms[i], card)
  THEN CHOOSE i \in 1 .. Len(ms) :
         MeldTakes(ms[i], card) /\ \A j \in 1 .. (i - 1) : ~MeldTakes(ms[j], card)
  ELSE 0

\* The melding loop of _apply_go_out over the cards of the hand, in order: a wild
\* card goes to the first meld with fewer than three wild cards, a natural card to
\* the first meld of its rank, and a card that finds no meld is passed over.
RECURSIVE GoOutMelds(_, _, _)
GoOutMelds(ms, cards, discard_card) ==
  IF cards = <<>> THEN ms
  ELSE
    LET card == Head(cards)
        i == FirstMeld(ms, card)
    IN IF card = discard_card \/ i = 0
       THEN GoOutMelds(ms, Tail(cards), discard_card)
       ELSE IF is_wild(card)
       THEN GoOutMelds([ms EXCEPT ![i].wild_cards = Append(@, card)],
                       Tail(cards), discard_card)
       ELSE GoOutMelds([ms EXCEPT ![i].natural_cards = Append(@, card)],
                       Tail(cards), discard_card)

\* The card _apply_go_out discards: the first whose removal leaves a hand that
\* _can_meld_all_cards accepts, else the first card; -1 stands for None.
GoOutDiscard(hand, team) ==
  IF \E i \in 1 .. Len(hand) : _can_meld_all_cards(Without(hand, hand[i]), team)
  THEN hand[CHOOSE i \in 1 .. Len(hand) :
              /\ _can_meld_all_cards(Without(hand, hand[i]), team)
              /\ \A j \in 1 .. (i - 1) : ~_can_meld_all_cards(Without(hand, hand[j]), team)]
  ELSE IF hand # <<>> THEN hand[1]
  ELSE -1

_apply_go_out ==
  LET player == current_player
      team == player % 2
      hand == hands[player]
      discard_card == GoOutDiscard(hand, team)
      M == [melds EXCEPT ![team] = GoOutMelds(@, hand, discard_card)]
      H == [hands EXCEPT ![player] = <<>>]
      DP == IF discard_card # -1 THEN Append(discard_pile, discard_card) ELSE discard_pile
      CAN == _update_canasta_count(canastas, M, team)
      concealed == Len(M[team]) = 0
  IN _finalize_game(team, concealed, H, M, DP, CAN)


\* ------------------------------------------------------------ _apply_action

\* The player-node branch of _apply_action, for any action id.
ApplyPlayerAction(action) ==
  IF action = ACTION_DRAW_STOCK
  THEN _apply_draw_stock /\ UNCHANGED <<turns, fin>>
  ELSE IF action = ACTION_TAKE_PILE
  THEN _apply_take_pile /\ UNCHANGED <<turns, fin>>
  ELSE IF action = ACTION_SKIP_MELD
  THEN _apply_skip_meld /\ UNCHANGED <<turns, fin>>
  ELSE IF ACTION_CREATE_MELD_START <= action /\ action <= ACTION_CREATE_MELD_END
  THEN LET d == _decode_create_meld_action(action)
       IN _apply_create_meld(d[1], d[2]) /\ UNCHANGED <<turns, fin>>
  ELSE IF ACTION_ADD_TO_MELD_START <= action /\ action <= ACTION_ADD_TO_MELD_END
  THEN LET d == _decode_add_to_meld_action(action)
       IN _apply_add_to_meld(d[1], d[2]) /\ UNCHANGED <<turns, fin>>
  ELSE IF ACTION_DISCARD_START <= action /\ action <= ACTION_DISCARD_END
  THEN /\ _apply_discard(action - ACTION_DISCARD_START)
       /\ turns' = turns + 1
       /\ UNCHANGED fin
  ELSE IF action = ACTION_ASK_PARTNER_GO_OUT
  THEN _apply_ask_partner /\ UNCHANGED <<turns, fin>>
  ELSE IF action = ACTION_ANSWER_GO_OUT_YES
  THEN _apply_answer(TRUE) /\ UNCHANGED <<turns, fin>>
  ELSE IF action = ACTION_ANSWER_GO_OUT_NO
  THEN _apply_answer(FALSE) /\ UNCHANGED <<turns, fin>>
  ELSE IF action = ACTION_GO_OUT
  THEN _apply_go_out
  ELSE UNCHANGED <<stateVars, turns, fin>>

\* The driver applies an action it found in the legal actions of the current player.
Apply(action) ==
  /\ ApplyPlayerAction(action)
  /\ last' = [call |-> "apply", action |-> action, actor |-> current_player, legal |-> TRUE]
  /\ UNCHANGED probe

\* The legal actions between two ids, at a player node.
LegalBetween(lo, hi) ==
  IF IsPlayerNode THEN {a \in LegalActions : lo <= a /\ a <= hi} ELSE {}

\* The cards the driver chooses its discard from.
DiscardChoices == Range(Prefix(hands[current_player], MaxDiscardChoices))

DrawStock ==
  /\ turns < MaxTurns
  /\ \E action \in LegalBetween(ACTION_DRAW_STOCK, ACTION_DRAW_STOCK) : Apply(action)

TakePile ==
  /\ turns < MaxTurns
  /\ \E action \in LegalBetween(ACTION_TAKE_PILE, ACTION_TAKE_PILE) : Apply(action)

CreateMeld ==
  \E action \in LegalBetween(ACTION_CREATE_MELD_START, ACTION_CREATE_MELD_END) : Apply(action)

AddToMeld ==
  \E action \in LegalBetween(ACTION_ADD_TO_MELD_START, ACTION_ADD_TO_MELD_END) : Apply(action)

SkipMeld ==
  \E action \in LegalBetween(ACTION_SKIP_MELD, ACTION_SKIP_MELD) : Apply(action)

Discard ==
  \E action \in LegalBetween(ACTION_DISCARD_START, ACTION_DISCARD_END) :
     /\ action - ACTION_DISCARD_START \in DiscardChoices
     /\ Apply(action)

AskPartnerToGoOut ==
  \E action \in LegalBetween(ACTION_ASK_PARTNER_GO_OUT, ACTION_ASK_PARTNER_GO_OUT) :
     Apply(action)

AnswerYes ==
  \E action \in LegalBetween(ACTION_ANSWER_GO_OUT_YES, ACTION_ANSWER_GO_OUT_YES) :
     Apply(action)

AnswerNo ==
  \E action \in LegalBetween(ACTION_ANSWER_GO_OUT_NO, ACTION_ANSWER_GO_OUT_NO) :
     Apply(action)

GoOut ==
  \E action \in LegalBetween(ACTION_GO_OUT, ACTION_GO_OUT) : Apply(action)

\* The finalizing query that hands in the player's team in either phase
LegalActionsQuery_crediting_player ==
  /\ IsPlayerNode
  /\ QueryFinalizes
  /\ _finalize_game(current_player % 2, FALSE,
                    hands, melds, discard_pile, canastas)
  /\ last' = [call |-> "legal_actions", action |-> -1, actor |-> current_player,
              legal |-> TRUE]
  /\ UNCHANGED probe

\* The driver asks for the legal actions and the engine ends the hand instead:
\* no legal draw (nobody went out), or an empty hand in the discard phase (the
\* current player's team is handed in as the team that went out).
LegalActionsQuery ==
  /\ IsPlayerNode
  /\ QueryFinalizes
  /\ _finalize_game(IF turn_phase = "draw" THEN -1 ELSE current_player % 2, FALSE,
                    hands, melds, discard_pile, canastas)
  /\ last' = [call |-> "legal_actions", action |-> -1, actor |-> current_player,
              legal |-> TRUE]
  /\ UNCHANGED probe

Next ==
  \/ Deal
  \/ DrawStock
  \/ TakePile
  \/ CreateMeld
  \/ AddToMeld
  \/ SkipMeld
  \/ Discard
  \/ AskPartnerToGoOut
  \/ AnswerYes
  \/ AnswerNo
  \/ GoOut
  \/ LegalActionsQuery

Spec == Init /\ [][Next]_vars


\* ------------------------------------------------------------ a driver that
\* does not keep to the legal actions

\* Action ids a careless driver hands to apply_action.
ProbeActions ==
  {ACTION_DRAW_STOCK, ACTION_TAKE_PILE, ACTION_SKIP_MELD, ACTION_GO_OUT,
   ACTION_ASK_PARTNER_GO_OUT,
   ACTION_CREATE_MELD_START + 0 * 50 + 2 * 4 + 0,
   ACTION_ADD_TO_MELD_START + 0 * 50 + 1,
   ACTION_DISCARD_START + 13, ACTION_DISCARD_START + 104}
  \cup (IF go_out_query_asker >= 0
        THEN {ACTION_ANSWER_GO_OUT_YES, ACTION_ANSWER_GO_OUT_NO} ELSE {})

\* apply_action with an action that is not in the legal actions: _apply_action
\* runs as for any other id.  The model follows the run no further.
ApplyIllegal ==
  /\ IsPlayerNode
  /\ last.legal
  /\ turns = 0
  /\ ~QueryFinalizes
  /\ \E action \in ProbeActions \ LegalActions :
       /\ ApplyPlayerAction(action)
       /\ last' = [call |-> "apply", action |-> action, actor |-> current_player,
                   legal |-> FALSE]
       /\ UNCHANGED probe

NextAny ==
  \/ last.legal /\ Next
  \/ ApplyIllegal

SpecAny == Init /\ [][NextAny]_vars

\* ------------------------------------------------------------ claims

TeamOf(p) == p % 2

AllCards == CardCount(hands, stock, discard_pile, melds, red_threes)

\* C1: once the deal of a hand is complete, the four hands, the stock, the
\* discard pile, the melds and the red-three piles hold 108 cards together, in
\* every state legal play reaches, the terminal state included.
C1_CardConservation == ~dealing_phase => AllCards = NUM_CARDS

\* C2: a hand is finalized with a winning team only if that team holds a
\* canasta at that moment.
C2_WinnerHoldsCanasta ==
  (fin.count > 0 /\ fin.winning_team >= 0) => fin.canastas[fin.winning_team + 1] >= 1


\* C3: partner approval is per turn.  The approval flag is false in every draw
\* phase; GoOut is legal for a team that holds melds only with the flag set for
\* the player who asked in this turn; the flag is set only by the partner's
\* AnswerYes, and while it stays set the player, the turn and the hand are the same.
C3_ApprovalPerTurn ==
  /\ [](turn_phase = "draw" => ~go_out_approved)
  /\ []((/\ IsPlayerNode
         /\ ACTION_GO_OUT \in LegalActions
         /\ melds[TeamOf(current_player)] # <<>>)
        => (/\ go_out_approved
            /\ partner_asked_this_turn
            /\ go_out_query_asker = current_player))
  /\ [][(go_out_approved' /\ ~go_out_approved)
        => (/\ last'.call = "apply"
            /\ last'.action = ACTION_ANSWER_GO_OUT_YES
            /\ last'.actor = (go_out_query_asker + 2) % NUM_PLAYERS
            /\ partner_asked_this_turn
            /\ current_player' = go_out_query_asker)]_vars
  /\ [][(go_out_approved /\ go_out_approved' /\ ~is_terminal')
        => (/\ current_player' = current_player
            /\ turns' = turns
            /\ hand_number' = hand_number)]_vars

C3_Witness ==
  /\ IsPlayerNode
  /\ ACTION_GO_OUT \in LegalActions
  /\ melds[TeamOf(current_player)] # <<>>
  /\ go_out_approved
  /\ turn_phase = "discard"

\* C4: the going-out handshake.  While a query is pending the partner of the
\* asker is to move and may only answer; asking hands the move to the partner;
\* an answer clears the query, sets the approval to the answer and hands the move
\* back to the asker in the meld phase, with no card moved.
C4_Handshake ==
  /\ []((IsPlayerNode /\ go_out_query_pending)
        => (/\ LegalActions = {ACTION_ANSWER_GO_OUT_YES, ACTION_ANSWER_GO_OUT_NO}
            /\ current_player = (go_out_query_asker + 2) % NUM_PLAYERS
            /\ turn_phase = "meld"))
  /\ [][(last'.call = "apply" /\ last'.action = ACTION_ASK_PARTNER_GO_OUT)
        => (/\ go_out_query_pending'
            /\ go_out_query_asker' = current_player
            /\ current_player' = (current_player + 2) % NUM_PLAYERS
            /\ turn_phase' = "meld"
            /\ UNCHANGED <<hands, stock, discard_pile, melds, red_threes>>)]_vars
  /\ [][(last'.call = "apply"
         /\ last'.action \in {ACTION_ANSWER_GO_OUT_YES, ACTION_ANSWER_GO_OUT_NO})
        => (/\ go_out_query_pending
            /\ ~go_out_query_pending'
            /\ go_out_approved' = (last'.action = ACTION_ANSWER_GO_OUT_YES)
            /\ current_player' = go_out_query_asker
            /\ turn_phase' = "meld"
            /\ UNCHANGED <<hands, stock, discard_pile, melds, red_threes>>)]_vars

C4_Witness ==
  /\ last.action = ACTION_ANSWER_GO_OUT_NO
  /\ ~go_out_approved
  /\ ~go_out_query_pending
  /\ current_player = go_out_query_asker
  /\ current_player = 0
  /\ turn_phase = "meld"

\* C5: apply_action with an action that is not in the legal actions leaves every
\* field of the state as it was.
C5_IllegalActionRejected == [][~last'.legal => UNCHANGED stateVars]_vars

\* C6: every meld of either team has at least two natural cards, at most three
\* wild cards, at least three cards, a rank other than 1 and 2, natural cards that
\* are non-wild cards of its rank and wild cards that are wild.
WellFormed(m) ==
  /\ Len(m.natural_cards) >= 2
  /\ Len(m.wild_cards) <= 3
  /\ Len(m.natural_cards) + Len(m.wild_cards) >= 3
  /\ m.rank \notin {1, 2}
  /\ \A i \in 1 .. Len(m.natural_cards) :
        ~is_wild(m.natural_cards[i]) /\ rank_of(m.natural_cards[i]) = m.rank
  /\ \A i \in 1 .. Len(m.wild_cards) : is_wild(m.wild_cards[i])

C6_MeldsWellFormed ==
  \A t \in Teams : \A i \in 1 .. Len(melds[t]) : WellFormed(melds[t][i])

\* A terminal state left by GoOut in which the team holds two melds, one of
\* them with a wild card, and GoOut has added a card to a meld.
C6_Witness ==
  /\ is_terminal
  /\ last.action = ACTION_GO_OUT
  /\ Len(melds[0]) = 2
  /\ \E i \in 1 .. 2 : Len(melds[0][i].wild_cards) > 0
  /\ fin.cards = NUM_CARDS

\* C7: a team never holds two melds of one rank, and no legal CreateMeld is for
\* a rank the acting team already holds a meld of.
C7_OneMeldPerRank ==
  /\ \A t \in Teams : \A i, j \in 1 .. Len(melds[t]) :
        i # j => melds[t][i].rank # melds[t][j].rank
  /\ (IsPlayerNode /\ turn_phase = "meld" /\ ~go_out_query_pending)
     => \A a \in LegalActions :
           (ACTION_CREATE_MELD_START <= a /\ a <= ACTION_CREATE_MELD_END)
           => ~HasMeldOfRank(melds[TeamOf(current_player)],
                             (a - ACTION_CREATE_MELD_START) \div 50)

\* The meld phase of a player who holds three more cards of a rank the team has
\* melded.
C7_Witness ==
  /\ IsPlayerNode /\ turn_phase = "meld" /\ ~go_out_query_pending
  /\ \E i \in 1 .. Len(melds[TeamOf(current_player)]) :
        Len(NaturalsOfRank(hands[current_player],
                           melds[TeamOf(current_player)][i].rank)) >= 3


\* C8: turn structure.  A draw (DrawStock or TakePile) is applied in phase draw
\* and leads to phase meld of the same player; melds, the question and the
\* answers are applied in phase meld and leave the phase as it is; SkipMeld leads
\* from phase meld to phase discard of the same player; Discard is applied in
\* phase discard and leads to phase draw of the next player in order; GoOut is
\* applied in phase discard; and a hand that ends without Discard or GoOut ends
\* in phase draw, never in phase discard.
C8_TurnStructure ==
  [][(last'.actor # CHANCE) =>
       IF last'.call = "legal_actions"
       THEN turn_phase = "draw"
       ELSE IF last'.action \in {ACTION_DRAW_STOCK, ACTION_TAKE_PILE}
       THEN /\ turn_phase = "draw" /\ turn_phase' = "meld"
            /\ current_player' = current_player
       ELSE IF last'.action = ACTION_SKIP_MELD
       THEN /\ turn_phase = "meld" /\ turn_phase' = "discard"
            /\ current_player' = current_player
       ELSE IF ACTION_DISCARD_START <= last'.action /\ last'.action <= ACTION_DISCARD_END
       THEN /\ turn_phase = "discard" /\ turn_phase' = "draw"
            /\ current_player' = (current_player + 1) % NUM_PLAYERS
       ELSE IF last'.action = ACTION_GO_OUT
       THEN turn_phase = "discard"
       ELSE turn_phase = "meld" /\ turn_phase' = "meld"]_vars

\* The condition of the specification for a legal TakePile.
PileFrozenForPlayer ==
  \/ ~initial_meld_made[TeamOf(current_player)]
  \/ pile_frozen
  \/ \E i \in 1 .. Len(discard_pile) : is_wild(discard_pile[i])

MatchingNaturals ==
  Cardinality({i \in 1 .. Len(hands[current_player]) :
                 /\ ~is_wild(hands[current_player][i])
                 /\ rank_of(hands[current_player][i])
                      = rank_of(discard_pile[Len(discard_pile)])})

PileTakeCondition ==
  /\ discard_pile # <<>>
  /\ ~is_black_three(discard_pile[Len(discard_pile)])
  /\ ~black_three_blocks_next
  /\ \/ MatchingNaturals >= 2
     \/ /\ MatchingNaturals >= 1
        /\ ~PileFrozenForPlayer
        /\ \E i \in 1 .. Len(melds[TeamOf(current_player)]) :
              melds[TeamOf(current_player)][i].rank
                = rank_of(discard_pile[Len(discard_pile)])

\* C10: the player may take the pile, and in phase draw TakePile is legal, iff
\* the pile is not empty, its top card is not a black three, the black-three
\* block is not set, and the player holds two natural cards of the top card's
\* rank, or one, the pile not being frozen for the player and the team holding a
\* meld of that rank; the pile is frozen for the player iff the team has made no
\* initial meld, the frozen flag is set or the pile holds a wild card.
C10_TakePileEligibility ==
  IsPlayerNode =>
    /\ _is_pile_frozen <=> PileFrozenForPlayer
    /\ _can_take_pile <=> PileTakeCondition
    /\ turn_phase = "draw" =>
         ((ACTION_TAKE_PILE \in LegalActions) <=> PileTakeCondition)

\* TakePile is legal for a player who holds one natural card of the top card's rank.
C10_Witness ==
  /\ IsPlayerNode
  /\ turn_phase = "draw"
  /\ ACTION_TAKE_PILE \in LegalActions
  /\ MatchingNaturals = 1


\* ------------------------------------------------------------ a hand played to the end of the stock
\* The driver of the long run: every player draws from the stock, melds nothing
\* and discards the card drawn, until the stock is empty; from then on a player
\* takes the pile when that is legal and discards any card.
MaxLongTurns == 61

LongDrawStock ==
  /\ turns < MaxLongTurns
  /\ \E action \in LegalBetween(ACTION_DRAW_STOCK, ACTION_DRAW_STOCK) : Apply(action)

LongTakePile ==
  /\ turns < MaxLongTurns
  /\ stock = <<>>
  /\ \E action \in LegalBetween(ACTION_TAKE_PILE, ACTION_TAKE_PILE) : Apply(action)

LongSkipMeld ==
  \E action \in LegalBetween(ACTION_SKIP_MELD, ACTION_SKIP_MELD) : Apply(action)

LongDiscard ==
  \E action \in LegalBetween(ACTION_DISCARD_START, ACTION_DISCARD_END) :
     /\ \/ stock = <<>>
        \/ action - ACTION_DISCARD_START
             = hands[current_player][Len(hands[current_player])]
     /\ Apply(action)

NextLong ==
  \/ Deal
  \/ LongDrawStock
  \/ LongTakePile
  \/ LongSkipMeld
  \/ LongDiscard
  \/ LegalActionsQuery

SpecLong == Init /\ [][NextLong]_vars

\* The step applies a player's action with an id from lo to hi.
PlayerApplied(lo, hi) ==
  /\ last'.call = "apply"
  /\ last'.actor # CHANCE
  /\ lo <= last'.action /\ last'.action <= hi

\* C11: the black-three block.  While the block is set the player to move is in
\* phase draw, the top card of the pile is a black three and TakePile is not
\* legal; a Discard of a black three by player p sets the block for player
\* (p+1) mod 4, whose legal actions do not hold TakePile; every draw clears it.
C11_BlackThreeBlock ==
  /\ []((IsPlayerNode /\ black_three_blocks_next)
        => (/\ turn_phase = "draw"
            /\ discard_pile # <<>>
            /\ is_black_three(discard_pile[Len(discard_pile)])
            /\ ACTION_TAKE_PILE \notin LegalActions))
  /\ [][(/\ PlayerApplied(ACTION_DISCARD_START, ACTION_DISCARD_END)
         /\ is_black_three(last'.action - ACTION_DISCARD_START))
        => (/\ black_three_blocks_next'
            /\ current_player' = (current_player + 1) % NUM_PLAYERS
            /\ turn_phase' = "draw"
            /\ ~_can_take_pile')]_vars
  /\ [][PlayerApplied(ACTION_DRAW_STOCK, ACTION_TAKE_PILE)
        => ~black_three_blocks_next']_vars

\* A player discards after the player before drew under the block: the block
\* is gone although a black three lies in the pile.
C11_Witness ==
  /\ IsPlayerNode
  /\ turn_phase = "draw"
  /\ ~black_three_blocks_next
  /\ Len(discard_pile) >= 2
  /\ is_black_three(discard_pile[Len(discard_pile) - 1])
  /\ ~is_black_three(discard_pile[Len(discard_pile)])


\* The score of team t for the hand as it stands, the team not having gone out.
ScoreNotOut(t) ==
  calculate_hand_score(MeldedCards(melds[t]), melds[t], Len(red_threes[t]),
                       hands[t] \o hands[t + 2], FALSE, FALSE)

\* C12: stock exhaustion.  In phase draw the hand is ended iff the stock is empty
\* and the pile may not be taken; then nothing but the end of the hand follows,
\* no team is credited with going out, both teams are scored as not having gone
\* out, and the state is terminal or the deal of the next hand begins.
C12_StockExhaustion ==
  /\ []((IsPlayerNode /\ turn_phase = "draw")
        => /\ QueryFinalizes <=> (stock = <<>> /\ ~PileTakeCondition)
           /\ (LegalActions = {}) <=> (stock = <<>> /\ ~PileTakeCondition))
  /\ [][(IsPlayerNode /\ turn_phase = "draw" /\ stock = <<>> /\ ~PileTakeCondition)
        => (/\ last'.call = "legal_actions"
            /\ fin'.count = fin.count + 1
            /\ fin'.winning_team = -1
            /\ \A t \in Teams : team_scores'[t] = team_scores[t] + ScoreNotOut(t)
            /\ \/ is_terminal'
               \/ /\ dealing_phase' /\ CurrentActor' = CHANCE
                  /\ hand_number' = hand_number + 1)]_vars
  /\ [][(IsPlayerNode /\ turn_phase = "draw" /\ (stock # <<>> \/ PileTakeCondition))
        => (fin' = fin /\ hand_number' = hand_number /\ ~is_terminal')]_vars

\* The deal of the next hand has begun after a hand that ended with an empty
\* stock in the draw phase, nobody having gone out.
C12_Witness ==
  /\ last.call = "legal_actions"
  /\ fin.count = 1
  /\ fin.winning_team = -1
  /\ dealing_phase
  /\ hand_number \in {1, 12}
  /\ fin.cards = NUM_CARDS


\* ------------------------------------------------------------ the end of the game, as a function
\* The cumulative scores the end-of-game decision of _finalize_game is tried on.
ScoreSamples == {-5, 4995, 5000, 5005, 7000}

InitWinner ==
  /\ InitState
  /\ probe \in {[kind |-> "finalize", scores |-> <<a, b>>, winning |-> w] :
                  a \in ScoreSamples, b \in ScoreSamples, w \in {-1, 0, 1}}

\* The end-of-game decision of _finalize_game on the scores and the team handed in.
FinalizeDecision ==
  /\ probe.kind = "finalize"
  /\ LET S == [t \in Teams |-> probe.scores[t + 1]]
     IN probe' = [kind |-> "finalized", scores |-> probe.scores,
                  winning |-> probe.winning,
                  over |-> ReachedTarget(S),
                  winner |-> DetermineWinner(S, probe.winning)]
  /\ UNCHANGED <<stateVars, turns, last, fin>>

NextWinner == FinalizeDecision

SpecWinner == InitWinner /\ [][NextWinner]_vars

\* C13: game end and winner.  A state is terminal iff a cumulative score has
\* reached the target score; the winning team of a terminal state, and of every
\* end-of-game decision, is the team with the strictly higher score, on equal
\* scores the team that went out in the last hand, and team 0 if none did.
C13_GameEndAndWinner ==
  /\ is_terminal <=> (team_scores[0] >= TARGET_SCORE \/ team_scores[1] >= TARGET_SCORE)
  /\ is_terminal =>
       /\ team_scores[0] > team_scores[1] => winning_team = 0
       /\ team_scores[1] > team_scores[0] => winning_team = 1
       /\ team_scores[0] = team_scores[1] =>
            winning_team = (IF fin.winning_team >= 0 THEN fin.winning_team ELSE 0)
  /\ probe.kind = "finalized" =>
       /\ probe.over <=> (probe.scores[1] >= TARGET_SCORE \/ probe.scores[2] >= TARGET_SCORE)
       /\ probe.scores[1] > probe.scores[2] => probe.winner = 0
       /\ probe.scores[2] > probe.scores[1] => probe.winner = 1
       /\ probe.scores[1] = probe.scores[2] =>
            probe.winner = (IF probe.winning >= 0 THEN probe.winning ELSE 0)

\* The decision on equal scores over the target, team 1 having gone out.
C13_Witness ==
  /\ probe.kind = "finalized"
  /\ probe.scores = <<5005, 5005>>
  /\ probe.winning = 1
  /\ probe.over
  /\ probe.winner = 1


\* Every per-hand field has the value the constructor gives it.
PerHandFieldsInitial ==
  /\ hands = [p \in Players |-> <<>>]
  /\ stock = <<>>
  /\ discard_pile = <<>>
  /\ melds = [t \in Teams |-> <<>>]
  /\ canastas = [t \in Teams |-> 0]
  /\ red_threes = [t \in Teams |-> <<>>]
  /\ cards_dealt = 0
  /\ red_three_replacements_needed = <<>>
  /\ Len(deck) = NUM_CARDS /\ Range(deck) = Cards
  /\ current_player = 0
  /\ turn_phase = "draw"
  /\ dealing_phase /\ game_phase = "dealing"
  /\ ~pile_frozen
  /\ ~black_three_blocks_next
  /\ initial_meld_made = [t \in Teams |-> FALSE]
  /\ ~go_out_query_pending /\ go_out_query_asker = -1
  /\ ~go_out_approved /\ ~partner_asked_this_turn
  /\ hand_scores = [t \in Teams |-> 0]
  /\ ~is_terminal /\ winning_team = -1

\* C14: the reset for a new hand.  A hand finalization that leaves both
\* cumulative scores under the target score raises the hand number by one,
\* keeps the cumulative scores it has just added up, gives every per-hand field
\* its initial value and makes the chance player the actor; a finalization at
\* which a score reaches the target starts no hand.
C14_NewHandReset ==
  [][(fin'.count = fin.count + 1) =>
       IF team_scores'[0] < TARGET_SCORE /\ team_scores'[1] < TARGET_SCORE
       THEN /\ hand_number' = hand_number + 1
            /\ PerHandFieldsInitial'
            /\ CurrentActor' = CHANCE
            /\ (last'.call = "legal_actions") =>
                 \A t \in Teams :
                    team_scores'[t] = team_scores[t]
                      + calculate_hand_score(MeldedCards(melds[t]), melds[t],
                                             Len(red_threes[t]), hands[t] \o hands[t + 2],
                                             t = fin'.winning_team, FALSE)
       ELSE hand_number' = hand_number /\ is_terminal']_vars

\* The deal of hand 1 is about to begin after player 0 went out in hand 0.
C14_Witness ==
  /\ fin.count = 1
  /\ fin.winning_team = 0
  /\ last.action = ACTION_GO_OUT
  /\ hand_number = 1
  /\ team_scores[0] > 0
  /\ PerHandFieldsInitial


\* ------------------------------------------------------------ deals with red threes
\* The driver of the varied deals: the chance player hands out the followed
\* deal or, at six positions, another card (the red threes 15, 67 and 80, the
\* low cards 13 and 14 that would else replace a red three, and 81 for the red
\* three 28); then two turns are played without melds.
MaxDealtTurns == 2

DealVariant(k) ==
  IF k = 10 THEN {67}
  ELSE IF k = 24 THEN {13}
  ELSE IF k = 25 THEN {14}
  ELSE IF k = 32 THEN {80}
  ELSE IF k = 33 THEN {81}
  ELSE IF k = 43 THEN {15}
  ELSE {}

VariedOutcomes ==
  {i \in 0 .. (Len(deck) - 1) :
     /\ cards_dealt < Len(DealPlan)
     /\ deck[i + 1] \in {DealPlan[cards_dealt + 1]} \cup DealVariant(cards_dealt)}

DealAny ==
  /\ is_chance_node
  /\ [scores |-> <<team_scores[0], team_scores[1]>>, hand |-> hand_number] \in StartStates
  /\ \E action \in VariedOutcomes :
       /\ ApplyChance(action)
       /\ last' = [call |-> "apply", action |-> action, actor |-> CHANCE, legal |-> TRUE]
  /\ UNCHANGED <<turns, fin, probe>>

DealtDrawStock ==
  /\ turns < MaxDealtTurns
  /\ \E action \in LegalBetween(ACTION_DRAW_STOCK, ACTION_DRAW_STOCK) : Apply(action)

DealtTakePile ==
  /\ turns < MaxDealtTurns
  /\ \E action \in LegalBetween(ACTION_TAKE_PILE, ACTION_TAKE_PILE) : Apply(action)

DealtSkipMeld ==
  \E action \in LegalBetween(ACTION_SKIP_MELD, ACTION_SKIP_MELD) : Apply(action)

DealtDiscard ==
  \E action \in LegalBetween(ACTION_DISCARD_START, ACTION_DISCARD_END) :
     /\ action - ACTION_DISCARD_START \in DiscardChoices
     /\ Apply(action)

NextDeal ==
  \/ DealAny
  \/ DealtDrawStock
  \/ DealtTakePile
  \/ DealtSkipMeld
  \/ DealtDiscard

SpecDeal == Init /\ [][NextDeal]_vars

\* The step is a chance action.
ChanceApplied == last'.call = "apply" /\ last'.actor = CHANCE

\* C15: the outcome of a deal.  A hand is in its dealing phase exactly while
\* fewer than 44 cards have been dealt, every chance action deals one card, and
\* after the 44th player 0 is to move in phase draw, every hand holds 11 cards,
\* no replacement is pending, the pile holds one card and the stock holds
\* 108 - 44 - 1 cards less the red threes put aside.
C15_DealOutcome ==
  /\ [](~is_terminal => (dealing_phase <=> cards_dealt < NUM_PLAYERS * HAND_SIZE))
  /\ [](cards_dealt <= NUM_PLAYERS * HAND_SIZE)
  /\ [][ChanceApplied =>
          /\ dealing_phase
          /\ cards_dealt' = cards_dealt + 1
          /\ (cards_dealt' < NUM_PLAYERS * HAND_SIZE) => CurrentActor' = CHANCE
          /\ (cards_dealt' = NUM_PLAYERS * HAND_SIZE) =>
               /\ CurrentActor' = 0
               /\ turn_phase' = "draw"
               /\ \A p \in Players : Len(hands'[p]) = HAND_SIZE
               /\ red_three_replacements_needed' = <<>>
               /\ Len(discard_pile') = 1
               /\ Len(stock') = NUM_CARDS - NUM_PLAYERS * HAND_SIZE - 1
                                  - (Len(red_threes'[0]) + Len(red_threes'[1]))]_vars

\* The deal has just ended with all four red threes put aside, one of them
\* drawn as a replacement.
C15_Witness ==
  /\ last.call = "apply" /\ last.actor = CHANCE
  /\ ~dealing_phase
  /\ Len(red_threes[0]) + Len(red_threes[1]) = 4
  /\ 54 \in Range(hands[3])
  /\ 16 \in Range(hands[0]) \cup Range(hands[2]) \cup Range(hands[3])
  /\ Len(stock) = 59


\* The red threes among the cards of a list.
RedThreesIn(cards) == {c \in Range(cards) : is_red_three(c)}

\* The red threes team t is given by the step.
NewRedThrees(t) == Range(red_threes'[t]) \ Range(red_threes[t])

\* C16: red threes never stay in a hand.  No hand holds a red three and the
\* red-three piles hold red threes only; a player's draw or pick-up gives the
\* player's team exactly the red threes that left the stock and the pile, and
\* the other team none; a chance action gives a red three dealt to a player to
\* that player's team, and every other red three it puts aside came from the
\* deck and went to a team that was owed a replacement.
C16_RedThreesPutAside ==
  /\ [](/\ \A p \in Players : RedThreesIn(hands[p]) = {}
        /\ \A t \in Teams : RedThreesIn(red_threes[t]) = Range(red_threes[t]))
  /\ [][PlayerApplied(ACTION_DRAW_STOCK, ACTION_TAKE_PILE) =>
          /\ NewRedThrees(1 - TeamOf(current_player)) = {}
          /\ NewRedThrees(TeamOf(current_player))
               = (RedThreesIn(stock) \cup RedThreesIn(discard_pile))
                   \ (RedThreesIn(stock') \cup RedThreesIn(discard_pile'))]_vars
  /\ [][ChanceApplied =>
          LET card == deck[last'.action + 1]
              team == (cards_dealt \div HAND_SIZE) % 2
              owed == {red_three_replacements_needed[i][1] % 2 :
                         i \in 1 .. Len(red_three_replacements_needed)}
                      \cup (IF is_red_three(card) THEN {team} ELSE {})
          IN /\ is_red_three(card) => card \in NewRedThrees(team)
             /\ NewRedThrees(0) \cup NewRedThrees(1)
                  = RedThreesIn(deck)
                      \ (RedThreesIn(deck') \cup RedThreesIn(stock')
                           \cup RedThreesIn(discard_pile'))
             /\ \A t \in Teams : (NewRedThrees(t) \ {card} # {}) => t \in owed]_vars

\* Player 1 has taken a pile that held the red three 15, the first card of the
\* pile, and the king player 0 discarded.
C16_Witness ==
  /\ last.call = "apply" /\ last.actor = 1 /\ last.action = ACTION_TAKE_PILE
  /\ 25 \in Range(hands[1])
  /\ 15 \in Range(red_threes[1])
  /\ discard_pile = <<>>


\* ------------------------------------------------------------ serialize, deserialize, clone
\* The fields of the state object, as a record.
StateRecord ==
  [deck |-> deck,
   hands |-> hands,
   stock |-> stock,
   discard_pile |-> discard_pile,
   melds |-> melds,
   canastas |-> canastas,
   red_threes |-> red_threes,
   cards_dealt |-> cards_dealt,
   red_three_replacements_needed |-> red_three_replacements_needed,
   current_player |-> current_player,
   is_terminal |-> is_terminal,
   team_scores |-> team_scores,
   hand_scores |-> hand_scores,
   hand_number |-> hand_number,
   dealing_phase |-> dealing_phase,
   game_phase |-> game_phase,
   turn_phase |-> turn_phase,
   pile_frozen |-> pile_frozen,
   initial_meld_made |-> initial_meld_made,
   black_three_blocks_next |-> black_three_blocks_next,
   go_out_query_pending |-> go_out_query_pending,
   go_out_query_asker |-> go_out_query_asker,
   go_out_approved |-> go_out_approved,
   partner_asked_this_turn |-> partner_asked_this_turn,
   winning_team |-> winning_team]

\* The state Game.new_initial_state() returns (CanastaState.__init__).
FreshState ==
  [deck |-> create_deck,
   hands |-> [p \in Players |-> <<>>],
   stock |-> <<>>,
   discard_pile |-> <<>>,
   melds |-> [t \in Teams |-> <<>>],
   canastas |-> [t \in Teams |-> 0],
   red_threes |-> [t \in Teams |-> <<>>],
   cards_dealt |-> 0,
   red_three_replacements_needed |-> <<>>,
   current_player |-> 0,
   is_terminal |-> FALSE,
   team_scores |-> [t \in Teams |-> 0],
   hand_scores |-> [t \in Teams |-> 0],
   hand_number |-> 0,
   dealing_phase |-> TRUE,
   game_phase |-> "dealing",
   turn_phase |-> "draw",
   pile_frozen |-> FALSE,
   initial_meld_made |-> [t \in Teams |-> FALSE],
   black_three_blocks_next |-> FALSE,
   go_out_query_pending |-> FALSE,
   go_out_query_asker |-> -1,
   go_out_approved |-> FALSE,
   partner_asked_this_turn |-> FALSE,
   winning_team |-> -1]

\* serialize(): the dictionary that is dumped as JSON; _deck is not in it.
serialize(st) ==
  [hands |-> st.hands,
   stock |-> st.stock,
   discard_pile |-> st.discard_pile,
   melds |-> st.melds,
   canastas |-> st.canastas,
   red_threes |-> st.red_threes,
   cards_dealt |-> st.cards_dealt,
   red_three_replacements_needed |-> st.red_three_replacements_needed,
   current_player |-> st.current_player,
   is_terminal |-> st.is_terminal,
   team_scores |-> st.team_scores,
   hand_scores |-> st.hand_scores,
   hand_number |-> st.hand_number,
   dealing_phase |-> st.dealing_phase,
   game_phase |-> st.game_phase,
   turn_phase |-> st.turn_phase,
   pile_frozen |-> st.pile_frozen,
   initial_meld_made |-> st.initial_meld_made,
   black_three_blocks_next |-> st.black_three_blocks_next,
   go_out_query_pending |-> st.go_out_query_pending,
   go_out_query_asker |-> st.go_out_query_asker,
   go_out_approved |-> st.go_out_approved,
   partner_asked_this_turn |-> st.partner_asked_this_turn,
   winning_team |-> st.winning_team]

\* deserialize(data) on the state st: every field of the dictionary is
\* assigned, _deck is left as it is.
deserialize(st, data) ==
  [deck |-> st.deck,
   hands |-> data.hands,
   stock |-> data.stock,
   discard_pile |-> data.discard_pile,
   melds |-> data.melds,
   canastas |-> data.canastas,
   red_threes |-> data.red_threes,
   cards_dealt |-> data.cards_dealt,
   red_three_replacements_needed |-> data.red_three_replacements_needed,
   current_player |-> data.current_player,
   is_terminal |-> data.is_terminal,
   team_scores |-> data.team_scores,
   hand_scores |-> data.hand_scores,
   hand_number |-> data.hand_number,
   dealing_phase |-> data.dealing_phase,
   game_phase |-> data.game_phase,
   turn_phase |-> data.turn_phase,
   pile_frozen |-> data.pile_frozen,
   initial_meld_made |-> data.initial_meld_made,
   black_three_blocks_next |-> data.black_three_blocks_next,
   go_out_query_pending |-> data.go_out_query_pending,
   go_out_query_asker |-> data.go_out_query_asker,
   go_out_approved |-> data.go_out_approved,
   partner_asked_this_turn |-> data.partner_asked_this_turn,
   winning_team |-> data.winning_team]

\* current_player() of the state st
ActorOf(st) ==
  IF st.is_terminal THEN TERMINAL
  ELSE IF st.dealing_phase THEN CHANCE
  ELSE st.current_player

\* chance_outcomes() of the state st: the indices of its undealt deck
ChanceOutcomesOf(st) == 0 .. (Len(st.deck) - 1)

\* C17: the serialization round trip.  A fresh state that has deserialized the
\* serialization of the state has the same actor, at a chance node the same
\* chance outcomes and the same card behind every outcome, and the same value
\* in every field the play reads, so that it has the same legal actions and
\* successors.
C17_SerializationRoundTrip ==
  LET restored == deserialize(FreshState, serialize(StateRecord))
  IN /\ ActorOf(restored) = CurrentActor
     /\ is_chance_node =>
          /\ ChanceOutcomesOf(restored) = ChanceOutcomes
          /\ restored.deck = deck
     /\ serialize(restored) = serialize(StateRecord)

\* The names of the fields of the state object.
FieldNames == DOMAIN StateRecord

\* clone() with the stock assigned without a copy
clone_sharing_stock(st) ==
  [state |-> st, shared |-> {"stock"}]

\* clone(): a new state object whose fields are assigned from st.  Every list
\* (the hands, the stock, the discard pile, the red threes, the scores, the
\* deck, each meld's natural and wild cards) is assigned as a copy and the
\* melds are rebuilt as new objects; the other fields are immutable values.
\* "shared" is the set of fields that still refer to an object of st.
clone(st) ==
  [state |->
     [deck |-> st.deck,
      hands |-> st.hands,
      stock |-> st.stock,
      discard_pile |-> st.discard_pile,
      melds |-> st.melds,
      canastas |-> st.canastas,
      red_threes |-> st.red_threes,
      cards_dealt |-> st.cards_dealt,
      red_three_replacements_needed |-> st.red_three_replacements_needed,
      current_player |-> st.current_player,
      is_terminal |-> st.is_terminal,
      team_scores |-> st.team_scores,
      hand_scores |-> st.hand_scores,
      hand_number |-> st.hand_number,
      dealing_phase |-> st.dealing_phase,
      game_phase |-> st.game_phase,
      turn_phase |-> st.turn_phase,
      pile_frozen |-> st.pile_frozen,
      initial_meld_made |-> st.initial_meld_made,
      black_three_blocks_next |-> st.black_three_blocks_next,
      go_out_query_pending |-> st.go_out_query_pending,
      go_out_query_asker |-> st.go_out_query_asker,
      go_out_approved |-> st.go_out_approved,
      partner_asked_this_turn |-> st.partner_asked_this_turn,
      winning_team |-> st.winning_team],
   shared |-> {}]

\* The state object the variables describe continues as the state st.
Becomes(st) ==
  /\ deck' = st.deck
  /\ hands' = st.hands
  /\ stock' = st.stock
  /\ discard_pile' = st.discard_pile
  /\ melds' = st.melds
  /\ canastas' = st.canastas
  /\ red_threes' = st.red_threes
  /\ cards_dealt' = st.cards_dealt
  /\ red_three_replacements_needed' = st.red_three_replacements_needed
  /\ current_player' = st.current_player
  /\ is_terminal' = st.is_terminal
  /\ team_scores' = st.team_scores
  /\ hand_scores' = st.hand_scores
  /\ hand_number' = st.hand_number
  /\ dealing_phase' = st.dealing_phase
  /\ game_phase' = st.game_phase
  /\ turn_phase' = st.turn_phase
  /\ pile_frozen' = st.pile_frozen
  /\ initial_meld_made' = st.initial_meld_made
  /\ black_three_blocks_next' = st.black_three_blocks_next
  /\ go_out_query_pending' = st.go_out_query_pending
  /\ go_out_query_asker' = st.go_out_query_asker
  /\ go_out_approved' = st.go_out_approved
  /\ partner_asked_this_turn' = st.partner_asked_this_turn
  /\ winning_team' = st.winning_team

\* The dealing positions at which a clone is taken.
ClonePoints == {0, 21, 43}

\* clone() is called on the state.  The play then goes on with one of the two
\* objects, the original or the clone (role); the probe keeps the other one
\* (held), the fields it shares with the one played on (shared) and the
\* value of the original when clone() was called (origin).
CloneState ==
  /\ probe = NoProbe
  /\ ~is_terminal
  /\ IF is_chance_node THEN cards_dealt \in ClonePoints ELSE turns = 0
  /\ \E role \in {"original", "clone"} :
       LET c == clone(StateRecord)
       IN /\ probe' = [kind |-> "clone", role |-> role,
                       held |-> IF role = "original" THEN c.state ELSE StateRecord,
                       shared |-> c.shared, origin |-> StateRecord]
          /\ Becomes(IF role = "original" THEN StateRecord ELSE c.state)
  /\ last' = [call |-> "clone", action |-> -1, actor |-> CurrentActor, legal |-> TRUE]
  /\ UNCHANGED <<turns, fin>>

NextClone ==
  \/ CloneState
  \/ NextDeal

SpecClone == Init /\ [][NextClone]_vars

\* The value of field f of the object that is not played on: a shared field
\* is read from the object that is.
HeldField(f) == IF f \in probe.shared THEN StateRecord[f] ELSE probe.held[f]

CreateMeldEntries ==
  LET hand == hands[current_player]
      wild_cards == WildsOf(hand)
      width == (Len(hand) + 1) * 4
      candidates == [i \in 1 .. 13 * width |->
                       [rank_idx |-> (i - 1) \div width,
                        num_naturals |-> ((i - 1) % width) \div 4,
                        num_wilds |-> (i - 1) % 4]]
      card_ids(x) == Prefix(NaturalsOfRank(hand, x.rank_idx), x.num_naturals)
                       \o Prefix(wild_cards, x.num_wilds)
      action_id(x) == ACTION_CREATE_MELD_START + x.rank_idx * 50
                        + x.num_naturals * 4 + x.num_wilds
      Generated(x) ==
        /\ x.rank_idx \notin {1, 2}
        /\ x.num_naturals \in 2 .. Len(NaturalsOfRank(hand, x.rank_idx))
        /\ x.num_wilds \in 0 .. Min(Len(wild_cards), 3)
        /\ x.num_naturals + x.num_wilds >= 3
        /\ _can_create_meld(x.rank_idx, card_ids(x))
        /\ action_id(x) <= ACTION_CREATE_MELD_END
      generated == SelectSeq(candidates, Generated)
  IN [i \in 1 .. Len(generated) |->
        [id |-> action_id(generated[i]), create |-> TRUE,
         slot |-> generated[i].rank_idx, cards |-> card_ids(generated[i])]]

\* The ADD_TO_MELD loops of _generate_meld_actions as a list: for each meld
\* the naturals (loop 1), the wilds (loop 2) and the combinations (loop 3),
\* each id with the meld index and the cards it was generated from.
AddToMeldEntries ==
  LET hand == hands[current_player]
      team == current_player % 2
      wild_cards == WildsOf(hand)
      n == Len(hand)
      width == n + 3 + n * 3
      Candidate(i) ==
        LET j == (i - 1) % width
        IN [meld_idx |-> (i - 1) \div width,
            loop |-> IF j < n THEN 1 ELSE IF j < n + 3 THEN 2 ELSE 3,
            num_naturals |-> IF j < n THEN j + 1
                             ELSE IF j < n + 3 THEN 0
                             ELSE ((j - n - 3) \div 3) + 1,
            num_wilds |-> IF j < n THEN 0
                          ELSE IF j < n + 3 THEN j - n + 1
                          ELSE ((j - n - 3) % 3) + 1]
      candidates == [i \in 1 .. Len(melds[team]) * width |-> Candidate(i)]
      meld(x) == melds[team][x.meld_idx + 1]
      card_ids(x) == Prefix(NaturalsOfRank(hand, meld(x).rank), x.num_naturals)
                       \o Prefix(wild_cards, x.num_wilds)
      action_id(x) ==
        ACTION_ADD_TO_MELD_START + x.meld_idx * 50
          + (IF x.loop = 1 THEN x.num_naturals
             ELSE IF x.loop = 2 THEN 10 + x.num_wilds
             ELSE 20 + x.num_naturals * 4 + x.num_wilds)
      Generated(x) ==
        /\ x.loop # 2 => x.num_naturals \in 1 .. Len(NaturalsOfRank(hand, meld(x).rank))
        /\ x.loop # 1 => x.num_wilds \in 1 .. Min(Len(wild_cards), 3 - Len(meld(x).wild_cards))
        /\ _can_add_to_meld(x.meld_idx, card_ids(x))
        /\ action_id(x) <= ACTION_ADD_TO_MELD_END
      generated == SelectSeq(candidates, Generated)
  IN [i \in 1 .. Len(generated) |->
        [id |-> action_id(generated[i]), create |-> FALSE,
         slot |-> generated[i].meld_idx, cards |-> card_ids(generated[i])]]

\* The CREATE_MELD and ADD_TO_MELD part of the list _generate_meld_actions
\* returns, behind ACTION_SKIP_MELD.
MeldActionEntries == CreateMeldEntries \o AddToMeldEntries

\* ------------------------------------------------------------ SpecMeld
\* Meld-phase states of player 0 with many cards of one rank in hand, the way
\* a taken discard pile leaves them, and the meld actions applied to them.

\* The eight cards of a rank, one per suit and deck.
CardsOfRank(r) == [i \in 1 .. 8 |-> r + 13 * (i - 1)]

\* The ranks of which player 0 holds many cards.
ManyRanks == {0, 12}

\* The numbers of cards of that rank in player 0's hand.
HandNaturals == {1, 2, 5, 6, 8}

\* The wild cards that go to player 0's hand, and those that go to the meld.
HandWilds == <<1, 104, 14, 105>>
MeldWilds == <<27, 40, 106>>

\* The melds of team 0: none, one meld of rank r, or one meld of every rank
\* (0 and 3..12), the meld of rank r holding num_wilds wild cards.
TeamMelds(config, r, num_wilds) ==
  LET MeldR == Meld(r, SubSeq(CardsOfRank(r), 1, IF num_wilds = 0 THEN 3 ELSE 2),
                    SubSeq(MeldWilds, 1, num_wilds))
      ranks == <<0, 3, 4, 5, 6, 7, 8, 9, 10, 11, 12>>
  IN IF config = "none" THEN <<>>
     ELSE IF config = "one" THEN <<MeldR>>
     ELSE [i \in 1 .. 11 |->
             IF ranks[i] = r THEN MeldR
             ELSE Meld(ranks[i], SubSeq(CardsOfRank(ranks[i]), 1, 3), <<>>)]

\* The meld-phase states of player 0, team 0 having the cumulative score and
\* the hand number of one of the starts.
MeldStates(starts) ==
  /\ \E s \in starts :
       /\ team_scores = [t \in Teams |-> IF t = 0 THEN s.score ELSE 0]
       /\ hand_number = s.hand
  /\ \E r \in ManyRanks, config \in {"none", "one", "full"}, meld_wilds \in {0, 1, 3},
        k \in HandNaturals, w \in 0 .. 4, extra \in BOOLEAN :
       LET in_meld == IF config = "none" THEN 0 ELSE IF meld_wilds = 0 THEN 3 ELSE 2
           ms == TeamMelds(config, r, meld_wilds)
           hand == SubSeq(CardsOfRank(r), in_meld + 1, in_meld + k)
                     \o SubSeq(HandWilds, 1, w)
                     \o (IF extra THEN <<44, 57>> ELSE <<>>)
           others == <<84, 97, 85, 98, 86, 99, 89, 15, 28, 67, 80>>
           used == Range(MeldedCards(ms)) \cup Range(hand) \cup Range(others)
           Unused(c) == c \notin used
       IN /\ in_meld + k <= 8
          /\ config = "none" => meld_wilds = 0
          /\ hands = [p \in Players |->
                        IF p = 0 THEN hand
                        ELSE SubSeq(others, 2 * p - 1, 2 * p)]
          /\ melds = [t \in Teams |-> IF t = 0 THEN ms ELSE <<>>]
          /\ initial_meld_made = [t \in Teams |-> t = 0 /\ config # "none"]
          /\ stock = SelectSeq(create_deck, Unused)
          /\ discard_pile = <<89>>
          /\ red_threes = [t \in Teams |-> IF t = 0 THEN <<15, 28>> ELSE <<67, 80>>]
  /\ deck = <<>>
  /\ canastas = [t \in Teams |-> 0]
  /\ cards_dealt = NUM_PLAYERS * HAND_SIZE
  /\ red_three_replacements_needed = <<>>
  /\ current_player = 0
  /\ is_terminal = FALSE
  /\ hand_scores = [t \in Teams |-> 0]
  /\ dealing_phase = FALSE
  /\ game_phase = "playing"
  /\ turn_phase = "meld"
  /\ pile_frozen = FALSE
  /\ black_three_blocks_next = FALSE
  /\ go_out_query_pending = FALSE
  /\ go_out_query_asker = -1
  /\ go_out_approved = FALSE
  /\ partner_asked_this_turn = FALSE
  /\ winning_team = -1
  /\ turns = 0
  /\ last = NoCall
  /\ fin = NoFinalize
  /\ probe = NoProbe

InitMeld == MeldStates({[score |-> 0, hand |-> 0]})

\* The player creates at most one meld and then adds at most once to a meld.
MeldCreate ==
  /\ last = NoCall
  /\ CreateMeld

MeldAdd ==
  /\ last = NoCall \/ last.action <= ACTION_CREATE_MELD_END
  /\ AddToMeld

NextMeld ==
  \/ MeldCreate
  \/ MeldAdd

SpecMeld == InitMeld /\ [][NextMeld]_vars

\* C19: the meld action ids are unambiguous.  In a meld-phase state every
\* CreateMeld and AddToMeld id of the generated list lies in its range, decodes
\* in that state to the rank (0..12) or meld index (0..10) and to the list of
\* hand cards it was generated from, and no two entries of the list share an
\* id; the ids are those the legal actions hold.
C19_MeldIdsUnambiguous ==
  (IsPlayerNode /\ turn_phase = "meld" /\ ~go_out_query_pending) =>
    LET es == MeldActionEntries
    IN /\ \A i \in 1 .. Len(es) :
            IF es[i].create
            THEN /\ es[i].id \in ACTION_CREATE_MELD_START .. ACTION_CREATE_MELD_END
                 /\ es[i].slot \in 0 .. 12
                 /\ _decode_create_meld_action(es[i].id) = <<es[i].slot, es[i].cards>>
            ELSE /\ es[i].id \in ACTION_ADD_TO_MELD_START .. ACTION_ADD_TO_MELD_END
                 /\ es[i].slot \in 0 .. 10
                 /\ _decode_add_to_meld_action(es[i].id) = <<es[i].slot, es[i].cards>>
       /\ \A i, j \in 1 .. Len(es) : es[i].id = es[j].id => i = j
       /\ {es[i].id : i \in 1 .. Len(es)} \cup {ACTION_SKIP_MELD} = _generate_meld_actions

\* the list holds the add of six naturals and two wilds to the meld with
\* index 10 (two naturals and a wild), the highest id a slot can hold
C19_Witness ==
  /\ IsPlayerNode /\ turn_phase = "meld"
  /\ Len(melds[0]) = 11
  /\ \E i \in 1 .. Len(MeldActionEntries) :
       /\ ~MeldActionEntries[i].create
       /\ MeldActionEntries[i].slot = 10
       /\ MeldActionEntries[i].id = ACTION_ADD_TO_MELD_START + 10 * 50 + 20 + 6 * 4 + 2
       /\ Len(MeldActionEntries[i].cards) = 8

ThresholdScores == {-5, 0, 1495, 1500, 2995, 3000}

InitThreshold ==
  /\ MeldStates({[score |-> x, hand |-> IF x = 0 THEN 0 ELSE 1] : x \in ThresholdScores})
  /\ melds[0] = <<>>

SpecThreshold == InitThreshold /\ [][NextMeld]_vars

\* The sum of the point values of the cards.
PointsOf(cards) ==
  LET RECURSIVE Sum(_)
      Sum(i) == IF i = 0 THEN 0
                ELSE Sum(i - 1) + (IF cards[i] >= 104 THEN 50
                                   ELSE IF rank_of(cards[i]) \in {0, 1} THEN 20
                                   ELSE IF rank_of(cards[i]) >= 7 THEN 10 ELSE 5)
  IN Sum(Len(cards))

\* The least value of a team's first meld at a cumulative score.
RequiredPoints(score) ==
  IF score < 0 THEN 15 ELSE IF score < 1500 THEN 50 ELSE IF score < 3000 THEN 90 ELSE 120

\* C21: the initial-meld threshold.  The initial-meld flag of a team turns true
\* only by a CreateMeld of a player of the team, whose meld is worth at least
\* 15, 50, 90 or 120 points by the team's cumulative score; in the meld phase
\* a CreateMeld of valid shape and new rank is legal iff the flag is true or
\* the cards are worth that much.
C21_InitialMeldThreshold ==
  /\ [][\A t \in Teams :
          (~initial_meld_made[t] /\ initial_meld_made'[t]) =>
            /\ last'.call = "apply"
            /\ last'.action \in ACTION_CREATE_MELD_START .. ACTION_CREATE_MELD_END
            /\ last'.actor % 2 = t
            /\ Len(melds'[t]) = Len(melds[t]) + 1
            /\ LET m == melds'[t][Len(melds'[t])]
               IN PointsOf(m.natural_cards \o m.wild_cards) >= RequiredPoints(team_scores[t])]_vars
  /\ []((IsPlayerNode /\ turn_phase = "meld" /\ ~go_out_query_pending) =>
          LET t == current_player % 2
              hand == hands[current_player]
          IN \A rank \in (0 .. 12) \ {1, 2}, n \in 2 .. 8, w \in 0 .. 3 :
               LET naturals == NaturalsOfRank(hand, rank)
                   wilds == WildsOf(hand)
                   cards == SubSeq(naturals, 1, n) \o SubSeq(wilds, 1, w)
               IN (n <= Len(naturals) /\ w <= Len(wilds) /\ n + w >= 3
                     /\ ~HasMeldOfRank(melds[t], rank))
                  => ((ACTION_CREATE_MELD_START + rank * 50 + n * 4 + w) \in LegalActions
                        <=> (initial_meld_made[t]
                               \/ PointsOf(cards) >= RequiredPoints(team_scores[t]))))

\* at a cumulative score of 1500 the team's first meld has just been created
\* with exactly the 90 points required there
C21_Witness ==
  /\ last.call = "apply"
  /\ last.action \in ACTION_CREATE_MELD_START .. ACTION_CREATE_MELD_END
  /\ team_scores[0] = 1500
  /\ Len(melds[0]) = 1
  /\ initial_meld_made[0]
  /\ PointsOf(melds[0][1].natural_cards \o melds[0][1].wild_cards) = 90

\* C22: one ask per turn and a binding refusal.  An AskPartnerToGoOut marks the
\* turn as asked, and the mark goes only when the asker discards or the hand
\* ends; while it stands AskPartnerToGoOut is not legal.  AnswerNo hands the
\* turn back to the asker without approval, approval comes from AnswerYes
\* only, and in an asked turn without approval GoOut is not legal.
C22_OneAskBindingRefusal ==
  /\ [][PlayerApplied(ACTION_ASK_PARTNER_GO_OUT, ACTION_ASK_PARTNER_GO_OUT)
          => /\ partner_asked_this_turn'
             /\ go_out_query_pending'
             /\ go_out_query_asker' = last'.actor]_vars
  /\ [][PlayerApplied(ACTION_ANSWER_GO_OUT_NO, ACTION_ANSWER_GO_OUT_NO)
          => /\ partner_asked_this_turn'
             /\ ~go_out_query_pending'
             /\ ~go_out_approved'
             /\ current_player' = go_out_query_asker'
             /\ ACTION_ASK_PARTNER_GO_OUT \notin LegalActions'
             /\ ACTION_GO_OUT \notin LegalActions']_vars
  /\ [][(partner_asked_this_turn /\ ~partner_asked_this_turn')
          => \/ /\ PlayerApplied(ACTION_DISCARD_START, ACTION_DISCARD_END)
                /\ last'.actor = go_out_query_asker
             \/ fin'.count = fin.count + 1]_vars
  /\ [][(~go_out_approved /\ go_out_approved')
          => PlayerApplied(ACTION_ANSWER_GO_OUT_YES, ACTION_ANSWER_GO_OUT_YES)]_vars
  /\ []((IsPlayerNode /\ partner_asked_this_turn)
          => /\ ACTION_ASK_PARTNER_GO_OUT \notin LegalActions
             /\ (~go_out_query_pending /\ ~go_out_approved)
                  => ACTION_GO_OUT \notin LegalActions)

\* after the refusal the asker has gone on to the discard phase with a canasta
\* and a hand that melds all but one card: only the refusal keeps GoOut away
C22_Witness ==
  /\ IsPlayerNode
  /\ partner_asked_this_turn
  /\ ~go_out_query_pending
  /\ ~go_out_approved
  /\ current_player = go_out_query_asker
  /\ turn_phase = "discard"
  /\ canastas[current_player % 2] >= 1
  /\ _can_meld_all_but_one
  /\ ACTION_GO_OUT \notin LegalActions

\* The cards, one of them set aside, make valid melds that include a canasta:
\* no threes, at most three wild cards, at least three naturals of every rank
\* held, and seven cards or more of one rank with the wild cards.
MeldsOutWithCanasta(hand) ==
  \E i \in 1 .. Len(hand) :
    LET rest == SubSeq(hand, 1, i - 1) \o SubSeq(hand, i + 1, Len(hand))
        wilds == WildsOf(rest)
    IN /\ Len(wilds) <= 3
       /\ \A j \in 1 .. Len(rest) :
            is_wild(rest[j])
            \/ /\ rank_of(rest[j]) # 2
               /\ Len(NaturalsOfRank(rest, rank_of(rest[j]))) >= 3
       /\ \E j \in 1 .. Len(rest) :
            /\ ~is_wild(rest[j])
            /\ Len(NaturalsOfRank(rest, rank_of(rest[j]))) + Len(wilds) >= 7

\* C23: concealed going out.  In the discard phase a player whose team holds no
\* meld and whose hand melds out with a canasta may go out, approved or not;
\* a GoOut of a team without melds ends the hand as concealed, a GoOut of a
\* team with melds never does.
C23_ConcealedGoingOut ==
  /\ []((IsPlayerNode /\ turn_phase = "discard" /\ ~go_out_query_pending
           /\ Len(melds[current_player % 2]) = 0
           /\ MeldsOutWithCanasta(hands[current_player]))
          => ACTION_GO_OUT \in LegalActions)
  /\ [][(PlayerApplied(ACTION_GO_OUT, ACTION_GO_OUT) /\ fin'.count = fin.count + 1)
          => (fin'.concealed <=> Len(melds[current_player % 2]) = 0)]_vars

\* 500 for every meld of seven or more cards without a wild card, 300 for
\* every one with.
CanastaBonuses(ms) ==
  LET RECURSIVE Sum(_)
      Sum(i) == IF i = 0 THEN 0
                ELSE Sum(i - 1)
                     + (IF Len(ms[i].natural_cards) + Len(ms[i].wild_cards) < 7 THEN 0
                        ELSE IF ms[i].wild_cards = <<>> THEN 500 ELSE 300)
  IN Sum(Len(ms))

\* The point value of all cards in the melds.
MeldCardPoints(ms) ==
  LET RECURSIVE Sum(_)
      Sum(i) == IF i = 0 THEN 0
                ELSE Sum(i - 1) + PointsOf(ms[i].natural_cards) + PointsOf(ms[i].wild_cards)
  IN Sum(Len(ms))

\* The red-three adjustment of a team with k red threes.
RedThreeAdjustment(k, has_melds) ==
  IF has_melds THEN (IF k = 4 THEN 800 ELSE 100 * k) ELSE -(100 * k)

\* The step is a GoOut of the player to move.
IsGoOutStep == last'.call = "apply" /\ last'.action = ACTION_GO_OUT

\* The hands and the melds a finalization step scores: those of the state, or
\* after a GoOut those the GoOut leaves.
ScoredHands ==
  IF IsGoOutStep THEN [hands EXCEPT ![current_player] = <<>>] ELSE hands

ScoredMelds ==
  IF IsGoOutStep
  THEN [melds EXCEPT ![current_player % 2] =
          GoOutMelds(@, hands[current_player],
                     GoOutDiscard(hands[current_player], current_player % 2))]
  ELSE melds

\* The hand score of team t at a finalization step.
ExpectedHandScore(t) ==
  MeldCardPoints(ScoredMelds[t])
  + CanastaBonuses(ScoredMelds[t])
  + RedThreeAdjustment(Len(red_threes[t]), ScoredMelds[t] # <<>>)
  + (IF fin'.winning_team # t THEN 0 ELSE IF fin'.concealed THEN 200 ELSE 100)
  - PointsOf(ScoredHands[t] \o ScoredHands[t + 2])

\* C24: hand scoring.  At every hand finalization the cumulative score of each
\* team grows by the points of its melded cards, plus 500 per natural and 300
\* per mixed canasta, plus the red-three adjustment, plus the going-out bonus
\* of the team that went out (100, concealed 200), minus the points of the
\* cards in the hands of its two players; one natural canasta of seven aces,
\* no red threes, empty hands and going out not concealed score 740.
C24_HandScoring ==
  /\ [][fin'.count = fin.count + 1
          => \A t \in Teams : team_scores'[t] = team_scores[t] + ExpectedHandScore(t)]_vars
  /\ [](calculate_hand_score(<<0, 13, 26, 39, 52, 65, 78>>,
                             <<Meld(0, <<0, 13, 26, 39, 52, 65, 78>>, <<>>)>>,
                             0, <<>>, TRUE, FALSE) = 740)

\* team 0 has gone out with a canasta and the game is over: the hand scores
\* of both teams stand, the one of team 1 negative
C24_Witness ==
  /\ fin.count = 1
  /\ fin.winning_team = 0
  /\ last.action = ACTION_GO_OUT
  /\ is_terminal
  /\ canastas[0] >= 1
  /\ hand_scores[0] >= 400
  /\ hand_scores[1] < 0
  /\ team_scores[0] = 4895 + hand_scores[0]

\* ------------------------------------------------------------ SpecScore
\* calculate_hand_score as a function of its arguments.

\* The melds of a team at the end of a hand: none, a small meld, a natural and
\* a mixed canasta, two melds.
MeldSamples ==
  { <<>>,
    <<Meld(12, <<12, 25, 38>>, <<>>)>>,
    <<Meld(0, <<0, 13, 26, 39, 52, 65, 78>>, <<>>)>>,
    <<Meld(5, <<5, 18, 31, 44, 57>>, <<1, 104>>)>>,
    <<Meld(0, <<0, 13, 26>>, <<>>), Meld(7, <<7, 20>>, <<14>>)>> }

\* The cards left in the hands of the two players of a team.
HandSamples == { <<>>, <<3, 104>>, <<9, 10, 11, 2, 40>> }

InitScore ==
  /\ InitState
  /\ probe \in {[kind |-> "score", melds |-> ms, red_three_count |-> k,
                 hand_cards |-> h, went_out |-> g[1], concealed |-> g[2]] :
                  ms \in MeldSamples, k \in 0 .. 4, h \in HandSamples,
                  g \in {<<FALSE, FALSE>>, <<TRUE, FALSE>>, <<TRUE, TRUE>>}}

\* calculate_hand_score on the arguments, as _finalize_game calls it, and the
\* red-three term inside it.
ScoreHand ==
  /\ probe.kind = "score"
  /\ probe' = [probe EXCEPT
                 !.kind = "scored",
                 !.red_three_count = [count |-> @,
                                      bonus |-> calculate_red_three_bonus(
                                                  @, Len(probe.melds) > 0)],
                 !.hand_cards = [cards |-> @,
                                 score |-> calculate_hand_score(
                                             MeldedCards(probe.melds), probe.melds,
                                             probe.red_three_count, @,
                                             probe.went_out, probe.concealed),
                                 score_without |-> calculate_hand_score(
                                             MeldedCards(probe.melds), probe.melds,
                                             0, @, probe.went_out, probe.concealed)]]
  /\ UNCHANGED <<stateVars, turns, last, fin>>

NextScore == ScoreHand

SpecScore == InitScore /\ [][NextScore]_vars

\* C25: the red-three adjustment.  For a team with k red threes the adjustment
\* is 0 when k = 0; with at least one meld +100 times k, but +800 when k = 4;
\* without a meld -100 times k, -400 when k = 4.  It is the share of the red
\* threes in the hand score.
C25_RedThreeAdjustment ==
  probe.kind = "scored" =>
    LET k == probe.red_three_count.count
        adjustment == probe.red_three_count.bonus
        has_melds == probe.melds # <<>>
    IN /\ k = 0 => adjustment = 0
       /\ (has_melds /\ k \in 1 .. 3) => adjustment = 100 * k
       /\ (has_melds /\ k = 4) => adjustment = 800
       /\ (~has_melds /\ k \in 1 .. 4) => adjustment = -(100 * k)
       /\ (~has_melds /\ k = 4) => adjustment = -400
       /\ probe.hand_cards.score = probe.hand_cards.score_without + adjustment

\* the hand of a team with all four red threes and no meld has been scored
C25_Witness ==
  /\ probe.kind = "scored"
  /\ probe.red_three_count.count = 4
  /\ probe.melds = <<>>
  /\ probe.red_three_count.bonus = -400

\* ------------------------------------------------------------ SpecRuns
\* Two runs of the engine that are given the same actions: whenever the run
\* in the variables has applied an action, the runs change places and the
\* other run applies the same action.

\* A run: the state object and the driver's count of turns and hand ends.
RunRecord == [state |-> StateRecord, turns |-> turns, fin |-> fin]

InitRuns ==
  /\ InitState
  /\ probe = [kind |-> "runs", replay |-> FALSE,
              held |-> RunRecord, before |-> RunRecord]

\* Both runs are in the same state: the run in the variables applies an action.
RunStep ==
  /\ ~probe.replay
  /\ RunRecord = probe.held
  /\ NextDeal

\* The run in the variables is one action ahead: the runs change places.
RunSwap ==
  /\ ~probe.replay
  /\ RunRecord # probe.held
  /\ Becomes(probe.held.state)
  /\ turns' = probe.held.turns
  /\ fin' = probe.held.fin
  /\ probe' = [probe EXCEPT !.replay = TRUE, !.held = RunRecord, !.before = probe.held]
  /\ UNCHANGED last

\* The run that is behind applies the action the other run applied.
RunReplay ==
  /\ probe.replay
  /\ RunRecord = probe.before
  /\ NextDeal
  /\ last' = last

\* Both runs have applied the action: they go on from the state reached.
RunResync ==
  /\ probe.replay
  /\ RunRecord # probe.before
  /\ probe' = [probe EXCEPT !.replay = FALSE, !.held = RunRecord, !.before = RunRecord]
  /\ UNCHANGED <<stateVars, turns, last, fin>>

NextRuns ==
  \/ RunStep
  \/ RunSwap
  \/ RunReplay
  \/ RunResync

SpecRuns == InitRuns /\ [][NextRuns]_vars

chance_outcomes ==
  [i \in 1 .. Len(deck) |-> [outcome |-> i - 1, prob |-> [num |-> 1, den |-> Len(deck)]]]

\* s ends with t.
EndsWith(s, t) ==
  /\ Len(t) <= Len(s)
  /\ SubSeq(s, Len(s) - Len(t) + 1, Len(s)) = t

\* C27: the chance outcomes.  At a chance node with n cards in the undealt
\* deck, n is 108 less the chance actions applied in the hand, the outcomes
\* are the indices 0..n-1 in order, each with probability 1/n, n of them, and
\* the legal actions of the chance player are those indices; applying outcome
\* i deals the i-th remaining card to the player whose turn it is to be dealt
\* and takes exactly that card from the deck, the rest of the deck keeping its
\* order (after the last card of the deal the rest goes on as replacements,
\* pile card and stock).
C27_ChanceOutcomes ==
  /\ [](is_chance_node =>
          LET n == Len(deck)
          IN /\ n = NUM_CARDS - cards_dealt
             /\ n > 0
             /\ Len(chance_outcomes) = n
             /\ \A i \in 1 .. n :
                  /\ chance_outcomes[i].outcome = i - 1
                  /\ chance_outcomes[i].prob.num = 1
                  /\ chance_outcomes[i].prob.den = n
             /\ n * chance_outcomes[1].prob.num = chance_outcomes[1].prob.den
             /\ ChanceOutcomes = {chance_outcomes[i].outcome : i \in 1 .. n})
  /\ [][ChanceApplied =>
          LET i == last'.action
              card == deck[i + 1]
              rest == SubSeq(deck, 1, i) \o SubSeq(deck, i + 2, Len(deck))
              p == cards_dealt \div HAND_SIZE
          IN /\ i \in 0 .. (Len(deck) - 1)
             /\ IF is_red_three(card)
                THEN card \in Range(red_threes'[p % 2]) /\ card \notin Range(red_threes[p % 2])
                ELSE card \in Range(hands'[p]) /\ card \notin Range(hands[p])
             /\ IF dealing_phase' THEN deck' = rest
                ELSE /\ deck' = <<>>
                     /\ EndsWith(rest, discard_pile' \o stock')]_vars

\* in the middle of a deal the chance player has just dealt card 81 to player 3
\* from position 48 of the 75 remaining cards
C27_Witness ==
  /\ last.call = "apply" /\ last.actor = CHANCE
  /\ is_chance_node
  /\ cards_dealt = 34
  /\ Len(deck) = 74
  /\ 81 \in Range(hands[3])
  /\ 81 \notin Range(deck)

\* The number of melds of seven or more cards among ms.
SevenCardMelds(ms) ==
  Cardinality({i \in 1 .. Len(ms) :
                 Len(ms[i].natural_cards) + Len(ms[i].wild_cards) >= 7})

\* C28: the canasta count.  In every reachable state the stored canasta count
\* of each team is the number of the team's melds of seven or more cards: a
\* meld of six cards does not count, one of seven does, right after
\* CreateMeld, AddToMeld and GoOut as after the reset for a new hand.
C28_CanastaCountAccuracy ==
  \A t \in Teams : canastas[t] = SevenCardMelds(melds[t])

\* the player has just added a card to a meld of six cards, which is now the
\* team's one canasta
C28_Witness ==
  /\ last.call = "apply" /\ last.actor \in Players
  /\ last.action \in ACTION_ADD_TO_MELD_START .. ACTION_ADD_TO_MELD_END
  /\ canastas[0] = 1
  /\ \E i \in 1 .. Len(melds[0]) : MeldSize(melds[0][i]) = 7

\* C29: the going out accounts for every card.  An applied GoOut puts one
\* card of the player's hand on top of the discard pile and every other card
\* of the hand into a meld of the player's team, and leaves the hand empty: the
\* hand is finalized with as many cards in the game as before, and in the
\* terminal state the cards are seen where they went.
C29_GoOutAccountsForEveryCard ==
  [][IsGoOutStep =>
       LET p == current_player
           hand == hands[p]
       IN /\ fin'.cards = AllCards
          /\ is_terminal' =>
               /\ hands'[p] = <<>>
               /\ \E i \in 1 .. Len(hand) :
                    /\ discard_pile' = Append(discard_pile, hand[i])
                    /\ \A j \in (1 .. Len(hand)) \ {i} :
                         hand[j] \in Range(MeldedCards(melds'[p % 2]))]_vars

\* The cards can be distributed over the melds ms and new melds with every
\* meld valid: every natural card joins the meld of its rank or a new meld of
\* at least two naturals of its rank, a new meld of two naturals takes a wild
\* card as its third, and no meld holds more than three wild cards.
CanDistribute(cards, ms) ==
  LET naturals == NaturalsIn(cards)
      wilds == Len(WildsOf(cards))
      new_ranks == {rank_of(naturals[i]) : i \in 1 .. Len(naturals)}
                     \ {ms[i].rank : i \in 1 .. Len(ms)}
      pairs == {r \in new_ranks : Len(NaturalsOfRank(cards, r)) = 2}
      Room(m) == IF Len(m.wild_cards) >= 3 THEN 0 ELSE 3 - Len(m.wild_cards)
      RECURSIVE RoomIn(_)
      RoomIn(s) == IF s = <<>> THEN 0 ELSE Room(Head(s)) + RoomIn(Tail(s))
  IN /\ \A r \in new_ranks : Len(NaturalsOfRank(cards, r)) >= 2
     /\ Cardinality(pairs) <= wilds
     /\ wilds <= RoomIn(ms) + 3 * Cardinality(new_ranks)

\* C30: the all-but-one test is sound.  AskPartnerToGoOut and GoOut are
\* offered only where one card of the hand can be set aside so that the rest
\* can be distributed over the team's melds and new melds with every meld
\* valid: a pair of naturals with no third card, a single natural without a
\* meld of its rank and wild cards that fit in no meld make the test fail.
C30_AllButOneSound ==
  (/\ IsPlayerNode
   /\ (ACTION_ASK_PARTNER_GO_OUT \in LegalActions \/ ACTION_GO_OUT \in LegalActions))
  => LET hand == hands[current_player]
     IN \E i \in 1 .. Len(hand) :
          CanDistribute(Without(hand, hand[i]), melds[current_player % 2])

\* The number of red threes at the front of the list.
RECURSIVE LeadingRedThrees(_)
LeadingRedThrees(s) ==
  IF s = <<>> \/ ~is_red_three(Head(s)) THEN 0 ELSE 1 + LeadingRedThrees(Tail(s))

LegalActionsRead_reordering_hand ==
  /\ ~(IsPlayerNode /\ QueryFinalizes)
  /\ hands' = [hands EXCEPT ![IF IsPlayerNode THEN current_player ELSE 0] =
                 [i \in 1 .. Len(@) |-> @[Len(@) + 1 - i]]]
  /\ UNCHANGED <<deck, stock, discard_pile, melds, canastas, red_threes, cards_dealt,
                 red_three_replacements_needed, current_player, is_terminal,
                 team_scores, hand_scores, hand_number, dealing_phase, game_phase,
                 turn_phase, pile_frozen, initial_meld_made, black_three_blocks_next,
                 go_out_query_pending, go_out_query_asker, go_out_approved,
                 partner_asked_this_turn, winning_team>>
  /\ UNCHANGED <<turns, fin, probe>>
  /\ last' = [call |-> "legal_actions", action |-> -1, actor |-> CurrentActor,
              legal |-> TRUE]

\* legal_actions() where it builds and returns a list (the empty list of a
\* terminal state included): the helpers it calls read the state and assign
\* to nothing.
LegalActionsRead ==
  /\ ~(IsPlayerNode /\ QueryFinalizes)
  /\ UNCHANGED stateVars
  /\ UNCHANGED <<turns, fin, probe>>
  /\ last' = [call |-> "legal_actions", action |-> -1, actor |-> CurrentActor,
              legal |-> TRUE]

NextQuery == Next \/ LegalActionsRead

SpecQuery == Init /\ [][NextQuery]_vars

\* What legal_actions() returns in the state.
Returned ==
  IF is_terminal THEN {}
  ELSE IF is_chance_node THEN ChanceOutcomes
  ELSE LegalActions

deal_hands_dealt(d) ==
  [p \in Players |-> [j \in 1 .. HAND_SIZE |-> d[(j - 1) * NUM_PLAYERS + p + 1]]]

InitDealers ==
  /\ InitState
  /\ probe = [kind |-> "dealt", cards |-> <<>>]

\* The chance player deals a card, which is added to the list.
DealListed ==
  /\ is_chance_node
  /\ probe.kind = "dealt"
  /\ [scores |-> <<team_scores[0], team_scores[1]>>, hand |-> hand_number] \in StartStates
  /\ \E action \in VariedOutcomes :
       /\ ApplyChance(action)
       /\ last' = [call |-> "apply", action |-> action, actor |-> CHANCE, legal |-> TRUE]
       /\ probe' = [probe EXCEPT !.cards = Append(@, deck[action + 1])]
  /\ UNCHANGED <<turns, fin>>

NextDealers == DealListed

SpecDealers == InitDealers /\ [][NextDealers]_vars

\* The cards of the list that are no red threes.
NoRedThrees(cards) == LET T(c) == ~is_red_three(c) IN SelectSeq(cards, T)

\* C33: both dealers assign the cards player-major.  While the state machine
\* deals, the k-th dealt card is with player k div 11, and deal_hands on the
\* deck that lists the dealt cards in the order of the deal, the undealt cards
\* after them, gives the four players the same hands before red threes are
\* replaced: cards 0-10 to player 0, 11-21 to player 1, 22-32 to player 2 and
\* 33-43 to player 3.
C33_DealersAgree ==
  (probe.kind = "dealt" /\ dealing_phase) =>
    LET listed == probe.cards \o deck
        n(p) == IF cards_dealt <= p * HAND_SIZE THEN 0
                ELSE IF cards_dealt >= (p + 1) * HAND_SIZE THEN HAND_SIZE
                ELSE cards_dealt - p * HAND_SIZE
    IN \A p \in Players :
         /\ hands[p] = NoRedThrees(SubSeq(listed, p * HAND_SIZE + 1, p * HAND_SIZE + n(p)))
         /\ hands[p] = NoRedThrees(SubSeq(deal_hands_dealt(listed)[p], 1, n(p)))

\* Every card of the state, collection after collection.
EveryCard ==
  deck \o hands[0] \o hands[1] \o hands[2] \o hands[3] \o stock \o discard_pile
  \o MeldedCards(melds[0]) \o MeldedCards(melds[1]) \o red_threes[0] \o red_threes[1]

\* C34: card uniqueness.  In every reachable state each card id 0..107 occurs
\* at most once in the undealt deck, the four hands, the stock, the discard
\* pile, the natural and wild lists of the melds and the two red-three piles
\* taken together.
C34_CardUniqueness ==
  LET all == EveryCard
      ids == Range(all)
  IN /\ ids \subseteq Cards
     /\ Cardinality(ids) = Len(all)

\* a player who took the pile has melded from the hand: cards lie in hands,
\* stock, melds and a red-three pile, 108 in all
C34_Witness ==
  /\ last.call = "apply" /\ last.actor \in Players
  /\ last.action \in ACTION_CREATE_MELD_START .. ACTION_ADD_TO_MELD_END
  /\ melds[last.actor % 2] # <<>>
  /\ red_threes[0] \o red_threes[1] # <<>>
  /\ stock # <<>>
  /\ Len(EveryCard) = NUM_CARDS

\* s is the beginning of t.
BeginsWith(t, s) == Len(s) <= Len(t) /\ SubSeq(t, 1, Len(s)) = s

\* C35: the initial-meld flag.  In every reachable state a team's flag is
\* set exactly when the team holds a meld in the hand; AddToMeld is legal only
\* for a team whose flag is set; and within a hand no meld is removed or
\* moved: every meld stays at its index with its rank, and its cards stay the
\* beginning of its lists.
C35_InitialMeldFlag ==
  /\ [](\A t \in Teams : initial_meld_made[t] <=> melds[t] # <<>>)
  /\ []((/\ IsPlayerNode
         /\ LegalBetween(ACTION_ADD_TO_MELD_START, ACTION_ADD_TO_MELD_END) # {})
        => initial_meld_made[current_player % 2])
  /\ [][hand_number' = hand_number =>
          \A t \in Teams :
            /\ Len(melds'[t]) >= Len(melds[t])
            /\ \A i \in 1 .. Len(melds[t]) :
                 /\ melds'[t][i].rank = melds[t][i].rank
                 /\ BeginsWith(melds'[t][i].natural_cards, melds[t][i].natural_cards)
                 /\ BeginsWith(melds'[t][i].wild_cards, melds[t][i].wild_cards)]_vars

\* team 0 has added to its meld, team 1 has not melded
C35_Witness ==
  /\ last.call = "apply" /\ last.actor \in {0, 2}
  /\ last.action \in ACTION_ADD_TO_MELD_START .. ACTION_ADD_TO_MELD_END
  /\ initial_meld_made[0] /\ ~initial_meld_made[1]
  /\ melds[0] # <<>> /\ melds[1] = <<>>
  /\ MeldSize(melds[0][1]) >= 4

\* The step is the reset for a new hand.
IsNewHandStep == hand_number' = hand_number + 1 /\ dealing_phase' /\ cards_dealt' = 0

\* C36: the freeze by a wild discard lasts for the hand.  A Discard of a two
\* or a joker sets the freeze flag; nothing but such a Discard sets it; once
\* set it stays set through every action of the hand, a TakePile that empties
\* the pile included, and only the reset for a new hand clears it; while it
\* is set TakePile is legal only for a player who holds two natural cards of
\* the rank of the top card.
C36_WildDiscardFreeze ==
  /\ [][(/\ PlayerApplied(ACTION_DISCARD_START, ACTION_DISCARD_END)
         /\ is_wild(last'.action - ACTION_DISCARD_START))
        => pile_frozen']_vars
  /\ [][(~pile_frozen /\ pile_frozen')
        => (/\ PlayerApplied(ACTION_DISCARD_START, ACTION_DISCARD_END)
            /\ is_wild(last'.action - ACTION_DISCARD_START))]_vars
  /\ [][(pile_frozen /\ ~pile_frozen') => IsNewHandStep]_vars
  /\ [][(pile_frozen /\ PlayerApplied(ACTION_TAKE_PILE, ACTION_TAKE_PILE))
        => (MatchingNaturals >= 2 /\ pile_frozen' /\ discard_pile' = <<>>)]_vars
  /\ []((pile_frozen /\ IsPlayerNode /\ ACTION_TAKE_PILE \in LegalActions)
        => MatchingNaturals >= 2)

\* a player has taken the pile, which holds no card now, after a wild card was
\* discarded in the hand: the flag is still set
C36_Witness ==
  /\ last.call = "apply" /\ last.action = ACTION_TAKE_PILE
  /\ pile_frozen
  /\ discard_pile = <<>>
  /\ \E c \in Range(hands[last.actor]) : is_wild(c)

\* C37: the block flag.  In every reachable state with the black-three block
\* set the phase is draw, the pile is not empty and its top card is a black
\* three, the card the player before the player to move has just discarded;
\* the flag is never set in phase meld or discard.  It is set by the Discard
\* of a black three only, which passes the turn on, and while it stays set
\* neither the player to move nor the pile changes.
C37_BlockFlagInvariant ==
  /\ [](black_three_blocks_next =>
          /\ turn_phase = "draw"
          /\ discard_pile # <<>>
          /\ is_black_three(discard_pile[Len(discard_pile)]))
  /\ [](turn_phase \in {"meld", "discard"} => ~black_three_blocks_next)
  /\ [][(~black_three_blocks_next /\ black_three_blocks_next') =>
          /\ PlayerApplied(ACTION_DISCARD_START, ACTION_DISCARD_END)
          /\ last'.actor = current_player
          /\ current_player' = (current_player + 1) % NUM_PLAYERS
          /\ discard_pile' = Append(discard_pile, last'.action - ACTION_DISCARD_START)
          /\ is_black_three(last'.action - ACTION_DISCARD_START)]_vars
  /\ [][(black_three_blocks_next /\ black_three_blocks_next') =>
          (current_player' = current_player /\ discard_pile' = discard_pile)]_vars

\* player 1 is to draw under the block: player 0 has just discarded the black
\* three on top of the pile
C37_Witness ==
  /\ black_three_blocks_next
  /\ IsPlayerNode
  /\ last.call = "apply"
  /\ last.actor = (current_player + NUM_PLAYERS - 1) % NUM_PLAYERS
  /\ discard_pile # <<>>
  /\ last.action = ACTION_DISCARD_START + discard_pile[Len(discard_pile)]
  /\ discard_pile[Len(discard_pile)] \in {2, 41, 54, 93}

\* C38: the stock is consumed by drawing only.  Within a hand the stock is
\* changed by DrawStock alone, which takes at least one card from its front;
\* it never grows; TakePile, red threes picked up from the pile included,
\* CreateMeld, AddToMeld, SkipMeld, the ask and answer actions and Discard
\* leave it as it was.
C38_StockOnlyDrawn ==
  /\ [][(~dealing_phase /\ ~dealing_phase' /\ stock' # stock) =>
          /\ PlayerApplied(ACTION_DRAW_STOCK, ACTION_DRAW_STOCK)
          /\ Len(stock') < Len(stock)
          /\ EndsWith(stock, stock')]_vars
  /\ [][PlayerApplied(ACTION_DRAW_STOCK, ACTION_DRAW_STOCK) =>
          (Len(stock') < Len(stock) /\ EndsWith(stock, stock'))]_vars
  /\ [][(\/ PlayerApplied(ACTION_TAKE_PILE, ACTION_TAKE_PILE)
         \/ PlayerApplied(ACTION_CREATE_MELD_START, ACTION_ADD_TO_MELD_END)
         \/ PlayerApplied(ACTION_SKIP_MELD, ACTION_SKIP_MELD)
         \/ PlayerApplied(ACTION_DISCARD_START, ACTION_DISCARD_END)
         \/ PlayerApplied(ACTION_ASK_PARTNER_GO_OUT, ACTION_ANSWER_GO_OUT_NO))
        => stock' = stock]_vars

\* player 1 has taken a pile of two cards with a red three in it: the red
\* three is put aside and the hand holds twelve cards, none from the stock
C38_Witness ==
  /\ last.call = "apply" /\ last.action = ACTION_TAKE_PILE /\ last.actor = 1
  /\ red_threes[1] # <<>>
  /\ red_threes[1][Len(red_threes[1])] = 15
  /\ Len(hands[1]) = HAND_SIZE + 1
  /\ stock # <<>>
  /\ discard_pile = <<>>

\* The ids of the list are in strictly increasing order.
Increasing(s) == \A i \in 1 .. (Len(s) - 1) : s[i] < s[i + 1]

\* C39: only the 44 dealt cards are chance outcomes.  A chance node has dealt
\* fewer than 44 cards; the deck is in increasing order of id; the chance
\* action that ends the deal takes the replacements for red threes and then
\* the first pile card from the front of what is left of the deck, its
\* lowest ids, and leaves the rest as the stock; so the stock is in strictly
\* increasing order in every reachable state and DrawStock draws the lowest
\* ids of the stock.
C39_OnlyDealtCardsAreChance ==
  /\ [](is_chance_node => cards_dealt < NUM_PLAYERS * HAND_SIZE)
  /\ [](Increasing(deck) /\ Increasing(stock))
  /\ [][(ChanceApplied /\ ~dealing_phase') =>
          LET rest == PopAt(deck, last'.action)
              m == Len(rest) - Len(stock') - 1
              held == Range(hands'[0] \o hands'[1] \o hands'[2] \o hands'[3]
                              \o red_threes'[0] \o red_threes'[1])
          IN /\ m >= 0
             /\ \A j \in 1 .. m : rest[j] \in held
             /\ discard_pile' = <<rest[m + 1]>>
             /\ stock' = SubSeq(rest, m + 2, Len(rest))
             /\ \A j \in 1 .. (m + 1) : \A c \in Range(stock') : rest[j] < c
             /\ Len(red_three_replacements_needed') = 0]_vars
  /\ [][PlayerApplied(ACTION_DRAW_STOCK, ACTION_DRAW_STOCK) =>
          \A c \in Range(stock) \ Range(stock') : \A d \in Range(stock') : c < d]_vars

\* the deal has ended with a red three replaced: the replacement, the pile
\* card and the stock follow one another in order of id
C39_Witness ==
  /\ last.call = "apply" /\ last.actor = CHANCE
  /\ ~dealing_phase
  /\ red_threes[0] \o red_threes[1] # <<>>
  /\ Len(discard_pile) = 1
  /\ Len(stock) < NUM_CARDS - NUM_PLAYERS * HAND_SIZE - 1
  /\ \E p \in Players :
       /\ Len(hands[p]) = HAND_SIZE
       /\ hands[p][HAND_SIZE] < discard_pile[1]
       /\ discard_pile[1] < stock[1]

\* ------------------------------------------------------------ SpecTurn
\* The play of Spec with the actions of the turn counted: h is the size of the
\* hand with which the player entered phase meld, n the number of actions
\* applied since that did not end the turn, asks the number of those that
\* asked the partner.

InitTurn ==
  /\ InitState
  /\ probe = [kind |-> "turn", h |-> 0, n |-> 0, asks |-> 0]

\* DrawStock or TakePile: the player enters phase meld.
TurnEnter ==
  /\ turns < MaxTurns
  /\ \E action \in LegalBetween(ACTION_DRAW_STOCK, ACTION_TAKE_PILE) :
       /\ ApplyPlayerAction(action)
       /\ last' = [call |-> "apply", action |-> action, actor |-> current_player,
                   legal |-> TRUE]
       /\ probe' = [kind |-> "turn", h |-> Len(hands'[current_player]), n |-> 0,
                    asks |-> 0]

\* CreateMeld, AddToMeld, SkipMeld, AskPartnerToGoOut and the partner's answer.
TurnAct ==
  \E action \in LegalBetween(ACTION_CREATE_MELD_START, ACTION_SKIP_MELD)
                  \cup LegalBetween(ACTION_ASK_PARTNER_GO_OUT, ACTION_ANSWER_GO_OUT_NO) :
    /\ ApplyPlayerAction(action)
    /\ last' = [call |-> "apply", action |-> action, actor |-> current_player,
                legal |-> TRUE]
    /\ probe' = [probe EXCEPT !.n = @ + 1,
                              !.asks = @ + (IF action = ACTION_ASK_PARTNER_GO_OUT
                                            THEN 1 ELSE 0)]

\* Discard or GoOut: the turn ends.
TurnEnd == Discard \/ GoOut

NextTurn == Deal \/ TurnEnter \/ TurnAct \/ TurnEnd \/ LegalActionsQuery

SpecTurn == InitTurn /\ [][NextTurn]_vars

\* The player whose turn it is.
TurnOwner == IF go_out_query_pending THEN go_out_query_asker ELSE current_player

\* What is left of the turn at most: the cards of the hand, the ask and its
\* answer, and SkipMeld.
TurnMeasure ==
  Len(hands[TurnOwner])
  + (IF turn_phase = "meld" THEN 1 ELSE 0)
  + (IF go_out_query_pending THEN 1
     ELSE IF turn_phase = "meld" /\ ~partner_asked_this_turn THEN 2
     ELSE 0)

\* C40: every turn terminates.  After the player has entered phase meld with
\* h cards, at most h + 3 actions are applied before the turn ends by
\* Discard, GoOut or the end of the hand, at most one of them an
\* AskPartnerToGoOut; every CreateMeld and AddToMeld makes the hand of the
\* player smaller; with an empty hand SkipMeld is the only legal action of
\* phase meld; and every action that does not end the turn lowers the measure
\* of what is left of the turn, which is at most h + 3 at its start and never
\* negative.
C40_TurnTerminates ==
  /\ []((IsPlayerNode /\ turn_phase \in {"meld", "discard"} /\ probe.kind = "turn")
        => (probe.n <= probe.h + 3 /\ probe.asks <= 1
            /\ probe.n + TurnMeasure <= probe.h + 3))
  /\ [][PlayerApplied(ACTION_CREATE_MELD_START, ACTION_ADD_TO_MELD_END)
        => Len(hands'[last'.actor]) < Len(hands[last'.actor])]_vars
  /\ []((/\ IsPlayerNode /\ turn_phase = "meld" /\ ~go_out_query_pending
         /\ hands[current_player] = <<>>)
        => LegalActions = {ACTION_SKIP_MELD})
  /\ [][(\/ PlayerApplied(ACTION_CREATE_MELD_START, ACTION_SKIP_MELD)
         \/ PlayerApplied(ACTION_ASK_PARTNER_GO_OUT, ACTION_ANSWER_GO_OUT_NO))
        => (/\ TurnOwner' = TurnOwner
            /\ TurnMeasure' < TurnMeasure
            /\ TurnMeasure' >= 0)]_vars
  /\ [][(\/ PlayerApplied(ACTION_DISCARD_START, ACTION_DISCARD_END)
         \/ PlayerApplied(ACTION_GO_OUT, ACTION_GO_OUT))
        => (turn_phase = "discard"
            /\ (is_terminal' \/ dealing_phase' \/ turn_phase' = "draw"))]_vars

\* player 0 entered phase meld with twelve cards, melded seven, asked, was
\* answered and skipped: four actions, and the turn is about to end
C40_Witness ==
  /\ probe.kind = "turn"
  /\ IsPlayerNode /\ turn_phase = "discard"
  /\ probe.h = HAND_SIZE + 1
  /\ probe.n = 4
  /\ probe.asks = 1
  /\ Len(hands[current_player]) = 5


====
